---- MODULE Spec2Model ----
(***************************************************************************)
(* The remote-download task subsystem of go_file_server (src/main.go):     *)
(* the DownloadManager, the executor and sampler goroutines AddTask        *)
(* starts for every task, and the HTTP handlers that call the manager;     *)
(* the directory listing's size column; and the CustomFS file system of    *)
(* the WebDAV server (src/webdav/server/server.go).                        *)
(*                                                                         *)
(* The transfer itself is github.com/melbahja/got's Download.  Its code is *)
(* not part of the repository; the model keeps what main.go relies on:     *)
(*   Init()        contacts the URL's host for the file's info and returns *)
(*                 an error when that fails;                                *)
(*   Start()       transfers the file, adding to the byte counter that     *)
(*                 Size() reads, and returns an error or nil;              *)
(*   RunProgress() calls the ProgressFunc in a loop until StopProgress.    *)
(*                                                                         *)
(* Goroutines share the manager's maps and the task records without any    *)
(* synchronisation, so every field write of ProgressFunc, CompleteTask and *)
(* FailTask is a step of its own.                                          *)
(***************************************************************************)
EXTENDS Integers, Sequences, FiniteSets, TLC

\* ------------------------------------------------------------------ bounds
MaxTasks == 1     \* tasks whose goroutines Spec follows step by step
MaxReqs == 2      \* concurrent POST requests in SpecAdd
MaxBytes == 2     \* bytes of the largest file
MaxTime == 3      \* ticks of the clock
MaxItems == 2     \* conditions in the "or" list of a task query
MaxListed == 2    \* tasks in the store a task query reads
MaxDepth == 3     \* elements of the longest path on the disk

Handles == 1..(MaxTasks + MaxReqs)
Reqs == 1..MaxReqs

\* ------------------------------------------------------------------- paths
\* A path is the sequence of its elements; every path here is absolute.
rootDir == <<"srv">>

\* The directories os.Stat finds on the machine.
Dirs == {<<>>, <<"srv">>, <<"srv", "pub">>, <<"etc">>}

\* The request paths (the uri of POST /*uri) a client sends.
Uris == {<<>>, <<"pub">>, <<"..", "etc">>, <<"nodir">>, <<"pub", "x">>}

\* The regular files among them.
Files == {<<"srv", "pub", "x">>}

\* The retention windows ClearEndedTasks is called with, in days.
Days == {0, 1}

\* The file sizes a host announces; 0 when it announces none.
Totals == {0, MaxBytes}

Urls == {"http://up/f", "http://down/f"}

Reachable(url) == url = "http://up/f"

\* path.Clean on an absolute path: ".." removes the element before it, and
\* is dropped at the root.
RECURSIVE CleanFrom(_, _)
CleanFrom(done, rest) ==
  IF rest = <<>> THEN done
  ELSE IF Head(rest) = ".."
       THEN CleanFrom(IF done = <<>> THEN <<>> ELSE SubSeq(done, 1, Len(done) - 1),
                      Tail(rest))
       ELSE CleanFrom(Append(done, Head(rest)), Tail(rest))

Clean(p) == CleanFrom(<<>>, p)

Join(a, b) == Clean(a \o b)

IsPrefix(a, b) == Len(a) <= Len(b) /\ SubSeq(b, 1, Len(a)) = a

RECURSIVE CommonLen(_, _)
CommonLen(a, b) ==
  IF a = <<>> \/ b = <<>> \/ Head(a) # Head(b) THEN 0
  ELSE 1 + CommonLen(Tail(a), Tail(b))

\* filepath.Rel(base, targ) of two clean absolute paths: one ".." for every
\* element of base after the common prefix, then the rest of targ.
Rel(base, targ) ==
  LET n == CommonLen(base, targ)
  IN [i \in 1..(Len(base) - n) |-> ".."] \o SubSeq(targ, n + 1, Len(targ))

Base(p) == IF p = <<>> THEN "/" ELSE p[Len(p)]

\* got.Download.Path(): the file name the URL gives, in the directory Dir.
Dest(url) == "f"

DownloadPath(dir, url) == Join(dir, <<Dest(url)>>)

\* ------------------------------------------------------------- formatting
\* %.1f of size/unit, for a unit that is a power of 1024: the tenths,
\* rounded to nearest, a tie to even.  q and r are the quotient and the
\* remainder of 10 * size by unit, computed on the parts of size so that no
\* intermediate value leaves 32 bits.
Tenths(size, unit) ==
  LET rem == size % unit
      a == (rem \div 1024) * 10 + ((rem % 1024) * 10) \div 1024
      b == ((rem % 1024) * 10) % 1024
      q == (size \div unit) * 10 + a \div (unit \div 1024)
      r == (a % (unit \div 1024)) * 1024 + b
  IN IF 2 * r > unit THEN q + 1
     ELSE IF 2 * r = unit THEN q + (q % 2)
     ELSE q

OneDecimal(size, unit) ==
  LET t == Tenths(size, unit)
  IN ToString(t \div 10) \o "." \o ToString(t % 10)

\* A formatting that moves to the next unit only above the threshold.
humanReadableSizeAbove(size) ==
  IF size <= 1024 THEN ToString(size) \o "B"
  ELSE IF size <= 1024 * 1024 THEN OneDecimal(size, 1024) \o "KB"
  ELSE IF size <= 1024 * 1024 * 1024 THEN OneDecimal(size, 1024 * 1024) \o "MB"
  ELSE OneDecimal(size, 1024 * 1024 * 1024) \o "GB"

\* humanReadableSize (main.go 188-199).
humanReadableSize(size) ==
  IF size < 1024 THEN ToString(size) \o "B"
  ELSE IF size < 1024 * 1024 THEN OneDecimal(size, 1024) \o "KB"
  ELSE IF size < 1024 * 1024 * 1024 THEN OneDecimal(size, 1024 * 1024) \o "MB"
  ELSE OneDecimal(size, 1024 * 1024 * 1024) \o "GB"

\* ------------------------------------------------------------------- state
VARIABLES
  Tasks,              \* dm.Tasks: task id -> the task record
  taskToDownlaodMap,  \* dm.taskToDownlaodMap: task id -> download handle
  downloadToTaskMap,  \* dm.downloadToTaskMap: download handle -> task id
  dl,                 \* the got.Download objects, by handle
  epc,                \* the executor goroutine's position, by handle
  spc,                \* the sampler goroutine's position, by handle
  sdl,                \* the sampler's local `downloaded`, by handle
  req,                \* the POST requests being served, by request
  nextId,             \* the ids uuid.New() has given out so far, plus one
  now,                \* the clock time.Now() reads
  netIO,              \* who has done network I/O so far
  crashed,            \* a goroutine panicked or the runtime gave up
  clr,                \* the ClearEndedTasks call under way, if any
  fs,                 \* the CustomFS object of the WebDAV server
  disk,               \* the files and directories on the machine's disk
  fsRet,              \* what the last call on fs returned
  freed,              \* the records deleted from Tasks that a pointer still
                      \* refers to, by task id
  auth,               \* the AuthConfig of the server
  authRet             \* what the last call of an auth middleware did

vars == <<Tasks, taskToDownlaodMap, downloadToTaskMap, dl, epc, spc, sdl, req,
          nextId, now, netIO, crashed, clr, fs, disk, fsRet, freed,
          auth, authRet>>

\* A *time.Time: <<>> is nil, <<t>> points to the time t.
NilTime == <<>>

IsTerminal(status) == status \in {"finished", "failed"}

\* The record AddTask stores (main.go 151-160).
NewTaskInfo(taskId, url, path, timeNow) ==
  [TaskId |-> taskId, Url |-> url, Filepath |-> path, Filename |-> Base(path),
   Status |-> "pending", Totalsize |-> 0, Downloaded |-> 0, Speed |-> "",
   ErrMsg |-> "", StartedAt |-> <<timeNow>>, EndAt |-> NilTime]

NewDownloadManager ==
  /\ Tasks = <<>>
  /\ taskToDownlaodMap = <<>>
  /\ downloadToTaskMap = <<>>

Idle == [pc |-> "idle"]

\* The directory the WebDAV server serves.
davRoot == <<"dav">>

\* NewCustomFS (server.go 84-91).
NewCustomFS(root) ==
  [root |-> root, readOnly |-> FALSE, allowList |-> <<>>, denyList |-> <<>>]

\* A directory, and a file of `size` bytes, on the disk.
DirEntry == [isDir |-> TRUE, size |-> 0]

FileEntry(size) == [isDir |-> FALSE, size |-> size]

\* The disk when the server starts: the served directory with the two files
\* TestCustomFS writes into it (server.go 579-589).
TestDisk ==
  (<<>> :> DirEntry) @@ (davRoot :> DirEntry)
    @@ (Append(davRoot, "test.txt") :> FileEntry(1))
    @@ (Append(davRoot, ".hidden") :> FileEntry(1))

\* auth.go 14-19: the permission modes, an iota.
PermissionNone == 0

PermissionRequired == 1

\* NewAuthConfig (auth.go 36-44): reading is open and writing needs
\* authentication, until the setters say otherwise.
NewAuthConfig(username, password) ==
  [Username |-> username, Password |-> password,
   ReadPermission |-> PermissionNone, WritePermission |-> PermissionRequired,
   Realm |-> "Restricted"]

\* No call on fs, and none on auth, has returned yet.
NoCall == [op |-> "none"]

Init ==
  /\ NewDownloadManager
  /\ dl = <<>>
  /\ epc = <<>>
  /\ spc = <<>>
  /\ sdl = <<>>
  /\ req = [r \in Reqs |-> Idle]
  /\ nextId = 1
  /\ now = 0
  /\ netIO = {}
  /\ crashed = FALSE
  /\ clr = Idle
  /\ fs = NewCustomFS(davRoot)
  /\ disk = TestDisk
  /\ fsRet = NoCall
  /\ freed = <<>>
  /\ auth = NewAuthConfig("", "")
  /\ authRet = NoCall

\* The elements of a sequence.
Range(seq) == {seq[i] : i \in DOMAIN seq}

\* m[k] = v in a Go map.
MapPut(m, k, v) == [x \in (DOMAIN m) \cup {k} |-> IF x = k THEN v ELSE m[x]]

\* delete(m, k) for every k in ks.
MapDrop(m, ks) == [x \in (DOMAIN m) \ ks |-> m[x]]

\* --------------------------------------------------------------- AddTask
\* download.Init() (main.go 140): got asks the host for the file's info.
\* It fails when the host cannot be reached, and may fail when it can.
InitOutcomes(url) == IF Reachable(url) THEN {"ok", "err"} ELSE {"err"}

\* &got.Download{...} (main.go 136): a new object.
FreshHandle == Cardinality(DOMAIN dl) + 1

NewDownload(url, dir, total) ==
  [URL |-> url, Dir |-> dir, size |-> 0, total |-> total,
   StopProgress |-> FALSE, startedAt |-> now]

\* The path AddTask records (main.go 145-149): download.Path() relative to
\* rootDir.  filepath.Rel of two absolute paths does not fail.
TaskPath(url, dir) == Rel(rootDir, DownloadPath(dir, url))

\* The two goroutines AddTask starts (main.go 165-175).
Spawn(d, taskId) ==
  /\ epc' = MapPut(epc, d, [pc |-> "start", taskId |-> taskId])
  /\ spc' = MapPut(spc, d, "check")
  /\ sdl' = MapPut(sdl, d, 0)

\* AddTask with Init succeeding (main.go 135-178), run to its return with
\* no other goroutine in between: Init, a fresh uuid, the record, the two
\* auxiliary map entries, the two goroutines.  At most `most` tasks are
\* added.
AddTaskUpTo(url, dir, most) ==
  /\ ~crashed
  /\ "ok" \in InitOutcomes(url)
  /\ nextId <= most
  /\ \A r \in Reqs : req[r].pc \in {"idle", "done"}
  /\ \E total \in Totals :
       LET taskId == nextId
           d == FreshHandle
       IN /\ dl' = MapPut(dl, d, NewDownload(url, dir, total))
          /\ Tasks' = MapPut(Tasks, taskId,
                             NewTaskInfo(taskId, url, TaskPath(url, dir), now))
          /\ downloadToTaskMap' = MapPut(downloadToTaskMap, d, taskId)
          /\ taskToDownlaodMap' = MapPut(taskToDownlaodMap, taskId, d)
          /\ Spawn(d, taskId)
  /\ nextId' = nextId + 1
  /\ netIO' = netIO \cup {"AddTask"}
  /\ UNCHANGED <<req, now, crashed, clr, fs, disk, fsRet, freed,
                 auth, authRet>>

AddTaskOk(url, dir) == AddTaskUpTo(url, dir, MaxTasks)

\* ------------------------------------------------- AddTask, step by step
\* The POST handler of start_server (main.go 291-334) for a JSON download
\* request: 404 for a path os.Stat does not find, 400 for a regular file,
\* otherwise AddTask(req.Url, filePath).
HandlePost(r, uri, url) ==
  /\ ~crashed
  /\ req[r].pc = "idle"
  /\ LET filePath == Join(rootDir, uri)
     IN req' = [req EXCEPT ![r] =
                  IF filePath \notin Dirs \cup Files
                  THEN [pc |-> "done", code |-> 404]
                  ELSE IF filePath \in Files
                  THEN [pc |-> "done", code |-> 400]
                  ELSE [pc |-> "Init", url |-> url, dir |-> filePath]]
  /\ UNCHANGED <<Tasks, taskToDownlaodMap, downloadToTaskMap, dl, epc,
                 spc, sdl, nextId, now, netIO, crashed,
                 clr, fs, disk, fsRet, freed,
                 auth, authRet>>

\* An AddTask that, when Init fails, stores a failed task under a fresh id
\* before it returns the error.
AddTaskInitRecording(r) ==
  /\ ~crashed
  /\ req[r].pc = "Init"
  /\ \E out \in InitOutcomes(req[r].url) :
       IF out = "err"
       THEN /\ nextId <= MaxReqs
            /\ Tasks' = MapPut(Tasks, nextId,
                               [NewTaskInfo(nextId, req[r].url, <<>>, now)
                                  EXCEPT !.Status = "failed"])
            /\ nextId' = nextId + 1
            /\ req' = [req EXCEPT ![r] = [pc |-> "done", code |-> 500,
                                          url |-> @.url]]
            /\ UNCHANGED dl
       ELSE \E total \in Totals :
              /\ dl' = MapPut(dl, FreshHandle,
                              NewDownload(req[r].url, req[r].dir, total))
              /\ req' = [req EXCEPT ![r] = [pc |-> "uuid", url |-> @.url,
                                            dir |-> @.dir, d |-> FreshHandle]]
              /\ UNCHANGED <<Tasks, nextId>>
  /\ netIO' = netIO \cup {"AddTask"}
  /\ UNCHANGED <<taskToDownlaodMap, downloadToTaskMap, epc, spc, sdl,
                 now, crashed, clr, fs, disk, fsRet, freed,
                 auth, authRet>>

\* main.go 136-142: the download object and Init; AddTask returns Init's
\* error, which the handler answers with 500.
AddTaskInit(r) ==
  /\ ~crashed
  /\ req[r].pc = "Init"
  /\ \E out \in InitOutcomes(req[r].url) :
       IF out = "err"
       THEN /\ req' = [req EXCEPT ![r] = [pc |-> "done", code |-> 500,
                                          url |-> @.url]]
            /\ UNCHANGED dl
       ELSE \E total \in Totals :
              /\ dl' = MapPut(dl, FreshHandle,
                              NewDownload(req[r].url, req[r].dir, total))
              /\ req' = [req EXCEPT ![r] = [pc |-> "uuid", url |-> @.url,
                                            dir |-> @.dir, d |-> FreshHandle]]
  /\ netIO' = netIO \cup {"AddTask"}
  /\ UNCHANGED <<Tasks, taskToDownlaodMap, downloadToTaskMap, epc, spc,
                 sdl, nextId, now, crashed,
                 clr, fs, disk, fsRet, freed,
                 auth, authRet>>

\* main.go 144: uuid.New() gives an id no earlier call gave.
AddTaskUuid(r) ==
  /\ ~crashed
  /\ req[r].pc = "uuid"
  /\ nextId <= MaxReqs
  /\ req' = [req EXCEPT ![r] = [pc |-> "Tasks", url |-> @.url, dir |-> @.dir,
                                d |-> @.d, taskId |-> nextId]]
  /\ nextId' = nextId + 1
  /\ UNCHANGED <<Tasks, taskToDownlaodMap, downloadToTaskMap, dl, epc,
                 spc, sdl, now, netIO, crashed,
                 clr, fs, disk, fsRet, freed,
                 auth, authRet>>

\* The three map assignments of AddTask, in the order of main.go 151, 162,
\* 163, and the step after each.
AfterAssign(m) ==
  CASE m = "Tasks" -> "downloadToTaskMap"
    [] m = "downloadToTaskMap" -> "taskToDownlaodMap"
    [] m = "taskToDownlaodMap" -> "go"

\* The manager's map of that name.
TheMap(m) ==
  CASE m = "Tasks" -> Tasks
    [] m = "downloadToTaskMap" -> downloadToTaskMap
    [] m = "taskToDownlaodMap" -> taskToDownlaodMap

\* Another request is in the middle of an assignment to the map m.
Writing(r, m) == \E q \in Reqs \ {r} : req[q].pc = m \o "_end"

\* A map assignment begins.  The maps are assigned to without a lock; when
\* another assignment to the same map is under way the runtime may notice
\* and stop the process ("concurrent map writes"), or not notice.  The
\* assignment works on the map as it is now.
MapAssignBegin(r, m) ==
  /\ ~crashed
  /\ req[r].pc = m
  /\ \/ /\ Writing(r, m)
        /\ crashed' = TRUE
        /\ UNCHANGED req
     \/ /\ req' = [req EXCEPT ![r] = [@ EXCEPT !.pc = m \o "_end"] @@
                                      [base |-> TheMap(m)]]
        /\ UNCHANGED crashed
  /\ UNCHANGED <<Tasks, taskToDownlaodMap, downloadToTaskMap, dl, epc, spc, sdl,
                 nextId, now, netIO, clr, fs, disk, fsRet, freed,
                 auth, authRet>>

\* The entry the request r assigns to the map m.
KeyOf(r, m) == IF m = "downloadToTaskMap" THEN req[r].d ELSE req[r].taskId

ValueOf(r, m) ==
  CASE m = "Tasks" -> NewTaskInfo(req[r].taskId, req[r].url,
                                  TaskPath(req[r].url, req[r].dir), now)
    [] m = "downloadToTaskMap" -> req[r].taskId
    [] m = "taskToDownlaodMap" -> req[r].d

\* A map assignment ends: the entry is stored.  After an overlapping
\* assignment that went unnoticed, the store may be into the map as it was
\* when this one began, which loses the other entry.
MapAssignEnd(r, m) ==
  /\ ~crashed
  /\ req[r].pc = m \o "_end"
  /\ \E base \in {TheMap(m), req[r].base} :
       LET new == MapPut(base, KeyOf(r, m), ValueOf(r, m))
       IN /\ Tasks' = IF m = "Tasks" THEN new ELSE Tasks
          /\ downloadToTaskMap' = IF m = "downloadToTaskMap" THEN new
                                  ELSE downloadToTaskMap
          /\ taskToDownlaodMap' = IF m = "taskToDownlaodMap" THEN new
                                  ELSE taskToDownlaodMap
  /\ req' = [req EXCEPT ![r] = [d |-> @.d, taskId |-> @.taskId,
                                pc |-> AfterAssign(m)]]
  /\ UNCHANGED <<dl, epc, spc, sdl, nextId, now, netIO, crashed,
                 clr, fs, disk, fsRet, freed,
                 auth, authRet>>

\* main.go 165-177: the two goroutines are started and the id returned.
AddTaskReturn(r) ==
  /\ ~crashed
  /\ req[r].pc = "go"
  /\ Spawn(req[r].d, req[r].taskId)
  /\ req' = [req EXCEPT ![r] = [pc |-> "done", code |-> 200, d |-> @.d,
                                taskId |-> @.taskId]]
  /\ UNCHANGED <<Tasks, taskToDownlaodMap, downloadToTaskMap, dl,
                 nextId, now, netIO, crashed,
                 clr, fs, disk, fsRet, freed,
                 auth, authRet>>

\* ------------------------------------------------------ task record access
\* dm.Tasks[taskId].<field> = v: a nil pointer dereference, which ends the
\* process, when the map holds no record under taskId.
SetField(taskId, field, v) ==
  IF taskId \in DOMAIN Tasks
  THEN /\ Tasks' = [Tasks EXCEPT ![taskId] = [@ EXCEPT ![field] = v]]
       /\ UNCHANGED crashed
  ELSE /\ crashed' = TRUE
       /\ UNCHANGED Tasks

\* ------------------------------------------------------------- executor
\* download.Start() (main.go 166) receives a chunk.
RecvBytes(d) ==
  /\ ~crashed
  /\ d \in DOMAIN epc
  /\ epc[d].pc = "start"
  /\ dl[d].size < MaxBytes
  /\ dl[d].total = 0 \/ dl[d].size < dl[d].total
  /\ dl' = [dl EXCEPT ![d].size = @ + 1]
  /\ netIO' = netIO \cup {"executor"}
  /\ UNCHANGED <<Tasks, taskToDownlaodMap, downloadToTaskMap, epc, spc,
                 sdl, req, nextId, now, crashed,
                 clr, fs, disk, fsRet, freed,
                 auth, authRet>>

\* download.Start() returns nil: the whole file has arrived.
StartOk(d) ==
  /\ ~crashed
  /\ d \in DOMAIN epc
  /\ epc[d].pc = "start"
  /\ dl[d].total = 0 \/ dl[d].size = dl[d].total
  /\ epc' = [epc EXCEPT ![d].pc = "CompleteTask"]
  /\ netIO' = netIO \cup {"executor"}
  /\ UNCHANGED <<Tasks, taskToDownlaodMap, downloadToTaskMap, dl, spc,
                 sdl, req, nextId, now, crashed,
                 clr, fs, disk, fsRet, freed,
                 auth, authRet>>

\* download.Start() returns an error.
StartErr(d) ==
  /\ ~crashed
  /\ d \in DOMAIN epc
  /\ epc[d].pc = "start"
  /\ epc' = [epc EXCEPT ![d].pc = "FailTask"]
  /\ netIO' = netIO \cup {"executor"}
  /\ UNCHANGED <<Tasks, taskToDownlaodMap, downloadToTaskMap, dl, spc,
                 sdl, req, nextId, now, crashed,
                 clr, fs, disk, fsRet, freed,
                 auth, authRet>>

\* The download CompleteTask and FailTask stop (main.go 119, 127).
DownloadOf(taskId) == taskToDownlaodMap[taskId]

\* A CompleteTask and FailTask that leave StopProgress as it is.
StopProgressStepForgetting(d, from, to) ==
  /\ ~crashed
  /\ d \in DOMAIN epc
  /\ epc[d].pc = from
  /\ IF epc[d].taskId \in DOMAIN taskToDownlaodMap
     THEN /\ epc' = [epc EXCEPT ![d].pc = to]
          /\ UNCHANGED <<dl, crashed>>
     ELSE /\ crashed' = TRUE
          /\ UNCHANGED <<dl, epc>>
  /\ UNCHANGED <<Tasks, taskToDownlaodMap, downloadToTaskMap, spc, sdl,
                 req, nextId, now, netIO,
                 clr, fs, disk, fsRet, freed,
                 auth, authRet>>

\* main.go 119-120 and 127-128: download.StopProgress = true, on the nil
\* the map gives for a missing id a nil pointer dereference.
StopProgressStep(d, from, to) ==
  /\ ~crashed
  /\ d \in DOMAIN epc
  /\ epc[d].pc = from
  /\ IF epc[d].taskId \in DOMAIN taskToDownlaodMap
     THEN /\ dl' = [dl EXCEPT ![DownloadOf(epc[d].taskId)].StopProgress = TRUE]
          /\ epc' = [epc EXCEPT ![d].pc = to]
          /\ UNCHANGED crashed
     ELSE /\ crashed' = TRUE
          /\ UNCHANGED <<dl, epc>>
  /\ UNCHANGED <<Tasks, taskToDownlaodMap, downloadToTaskMap, spc, sdl,
                 req, nextId, now, netIO,
                 clr, fs, disk, fsRet, freed,
                 auth, authRet>>

\* A CompleteTask and FailTask that write the end time to StartedAt.
ExecWriteStartedAt(d, from, to, field, v) ==
  /\ ~crashed
  /\ d \in DOMAIN epc
  /\ epc[d].pc = from
  /\ SetField(epc[d].taskId, IF field = "EndAt" THEN "StartedAt" ELSE field, v)
  /\ epc' = [epc EXCEPT ![d].pc = to]
  /\ UNCHANGED <<taskToDownlaodMap, downloadToTaskMap, dl, spc, sdl, req,
                 nextId, now, netIO, clr, fs, disk, fsRet, freed,
                 auth, authRet>>

\* One field write of CompleteTask or FailTask.
ExecWrite(d, from, to, field, v) ==
  /\ ~crashed
  /\ d \in DOMAIN epc
  /\ epc[d].pc = from
  /\ SetField(epc[d].taskId, field, v)
  /\ epc' = [epc EXCEPT ![d].pc = to]
  /\ UNCHANGED <<taskToDownlaodMap, downloadToTaskMap, dl, spc, sdl, req,
                 nextId, now, netIO, clr, fs, disk, fsRet, freed,
                 auth, authRet>>

\* A CompleteTask that records the zero time as the end.
CompleteTaskUndated(d) ==
  \/ StopProgressStep(d, "CompleteTask", "c_status")
  \/ ExecWrite(d, "c_status", "c_endat", "Status", "finished")
  \/ ExecWrite(d, "c_endat", "done", "EndAt", <<0>>)

\* CompleteTask (main.go 118-124), a step per line.
CompleteTask(d) ==
  \/ StopProgressStep(d, "CompleteTask", "c_status")
  \/ ExecWrite(d, "c_status", "c_endat", "Status", "finished")
  \/ ExecWrite(d, "c_endat", "done", "EndAt", <<now>>)

\* err.Error() of the error Start returned.
ErrorText == "transfer failed"

\* An executor that starts the transfer again after it has recorded the
\* failure.
FailTaskRetrying(d) ==
  \/ StopProgressStep(d, "FailTask", "f_status")
  \/ ExecWrite(d, "f_status", "f_errmsg", "Status", "failed")
  \/ ExecWrite(d, "f_errmsg", "f_endat", "ErrMsg", ErrorText)
  \/ ExecWrite(d, "f_endat", "start", "EndAt", <<now>>)

\* FailTask (main.go 126-133), a step per line.
FailTask(d) ==
  \/ StopProgressStep(d, "FailTask", "f_status")
  \/ ExecWrite(d, "f_status", "f_errmsg", "Status", "failed")
  \/ ExecWrite(d, "f_errmsg", "f_endat", "ErrMsg", ErrorText)
  \/ ExecWrite(d, "f_endat", "done", "EndAt", <<now>>)

\* --------------------------------------------------------------- sampler
\* RunProgress (main.go 174): the loop's test of StopProgress.
RunProgressCheck(d) ==
  /\ ~crashed
  /\ d \in DOMAIN spc
  /\ spc[d] = "check"
  /\ spc' = [spc EXCEPT ![d] = IF dl[d].StopProgress THEN "done" ELSE "fn"]
  /\ UNCHANGED <<Tasks, taskToDownlaodMap, downloadToTaskMap, dl, epc,
                 sdl, req, nextId, now, netIO, crashed,
                 clr, fs, disk, fsRet, freed,
                 auth, authRet>>

\* dm.downloadToTaskMap[d] (main.go 107): the zero value for a missing key.
LookupTask(d) ==
  IF d \in DOMAIN downloadToTaskMap THEN downloadToTaskMap[d] ELSE 0

\* A sampler that takes a sample of no fewer bytes for progress.
StatusAfterSampleNotLess(task, downloaded) ==
  IF downloaded >= task.Downloaded THEN "downloading" ELSE task.Status

\* main.go 110-112: the status after a sample of `downloaded` bytes.
StatusAfterSample(task, downloaded) ==
  IF downloaded > task.Downloaded THEN "downloading" ELSE task.Status

\* A sampler that records the bytes since its last sample.
DownloadedDelta(task, downloaded) == downloaded - task.Downloaded

\* A sampler that adds every sample to the bytes it has recorded.
DownloadedSum(task, downloaded) == task.Downloaded + downloaded

\* main.go 113: the byte count ProgressFunc records for a sample.
DownloadedAfterSample(task, downloaded) == downloaded

\* got.Download.AvgSpeed(): the bytes so far over the time so far.
AvgSpeed(d) ==
  IF now > dl[d].startedAt THEN dl[d].size \div (now - dl[d].startedAt) ELSE 0

\* One field write of ProgressFunc.
SampleWrite(d, from, to, field, v) ==
  /\ ~crashed
  /\ d \in DOMAIN spc
  /\ spc[d] = from
  /\ SetField(LookupTask(d), field, v)
  /\ spc' = [spc EXCEPT ![d] = to]
  /\ UNCHANGED <<taskToDownlaodMap, downloadToTaskMap, dl, epc, req,
                 nextId, now, netIO, clr, fs, disk, fsRet, freed,
                 auth, authRet>>

\* The record ProgressFunc writes to; an empty one stands for the nil the
\* map gives for a missing id, which SetField turns into the panic.
RecordOf(d) ==
  IF LookupTask(d) \in DOMAIN Tasks THEN Tasks[LookupTask(d)]
  ELSE NewTaskInfo(0, "", <<>>, 0)

\* ProgressFunc (main.go 106-116): lines 107-112 read d.Size() and set the
\* status; 113, 114 and 115 are a step each.
ProgressFunc(d) ==
  \/ /\ d \in DOMAIN spc
     /\ SampleWrite(d, "fn", "pf_downloaded", "Status",
                    StatusAfterSample(RecordOf(d), dl[d].size))
     /\ sdl' = [sdl EXCEPT ![d] = dl[d].size]
  \/ /\ d \in DOMAIN spc
     /\ SampleWrite(d, "pf_downloaded", "pf_totalsize", "Downloaded",
                    DownloadedAfterSample(RecordOf(d), sdl[d]))
     /\ UNCHANGED sdl
  \/ /\ d \in DOMAIN spc
     /\ SampleWrite(d, "pf_totalsize", "pf_speed", "Totalsize", dl[d].total)
     /\ UNCHANGED sdl
  \/ /\ d \in DOMAIN spc
     /\ SampleWrite(d, "pf_speed", "check", "Speed",
                    humanReadableSize(AvgSpeed(d)) \o "/s")
     /\ UNCHANGED sdl

\* ------------------------------------------------------- ClearEndedTasks
\* The clock counts ticks; two clock readings with no tick in between are
\* equal.  This many ticks are a day.
TicksPerDay == 2

\* main.go 182: the test that deletes a task, time.Since(EndAt).Hours() >
\* days*24, with both sides in hours times TicksPerDay.
Ended(task, days, t) ==
  task.EndAt # NilTime /\ (t - task.EndAt[1]) * 24 > days * 24 * TicksPerDay

\* A request holds a pointer to the record of taskId: one a task query has
\* collected for its response, or one List or GetTaskStatus returned.
Held(taskId) ==
  \E r \in Reqs :
    \/ "ret" \in DOMAIN req[r] /\ taskId \in Range(req[r].ret)
    \/ "tasks" \in DOMAIN req[r] /\ taskId \in Range(req[r].tasks)
    \/ "task" \in DOMAIN req[r] /\ req[r].task = <<taskId>>

\* delete(dm.Tasks, taskId) (main.go 183) removes the map entry; the record
\* stays where it is for as long as a pointer refers to it.  These are the
\* records of tasks that are not in kept.
Freed(tasks, kept) ==
  LET gone == {taskId \in (DOMAIN tasks) \ (DOMAIN kept) : Held(taskId)}
  IN [taskId \in gone |-> tasks[taskId]]

\* The record behind the pointer to the task taskId.
Deref(taskId) ==
  IF taskId \in DOMAIN Tasks THEN Tasks[taskId] ELSE freed[taskId]

\* The map the loop of ClearEndedTasks leaves (main.go 181-185).
Cleared(tasks, days, t) ==
  MapDrop(tasks, {id \in DOMAIN tasks : Ended(tasks[id], days, t)})

\* ClearEndedTasks (main.go 180-186).
ClearEndedTasks(days) ==
  /\ ~crashed
  /\ Tasks' = Cleared(Tasks, days, now)
  /\ freed' = freed @@ Freed(Tasks, Cleared(Tasks, days, now))
  /\ UNCHANGED <<taskToDownlaodMap, downloadToTaskMap, dl, epc, spc, sdl,
                 req, nextId, now, netIO, crashed,
                 clr, fs, disk, fsRet,
                 auth, authRet>>

\* ------------------------------------- ClearEndedTasks, step by step
\* An AddTask call is in the middle of its assignment to dm.Tasks.
InsertUnderWay == \E q \in Reqs : req[q].pc = "Tasks_end"

\* A step of the loop over dm.Tasks (main.go 181) while an assignment to the
\* map is under way: the runtime may notice and stop the process
\* ("concurrent map iteration and map write"), or not notice.
RangeStep(step) ==
  \/ /\ InsertUnderWay
     /\ crashed' = TRUE
     /\ UNCHANGED <<clr, Tasks, freed>>
  \/ /\ step
     /\ UNCHANGED crashed

\* main.go 181: the loop begins.  It must visit the keys the map holds now;
\* a key inserted while it runs may be visited or not.
ClearBegin(days) ==
  /\ ~crashed
  /\ clr.pc = "idle"
  /\ RangeStep(/\ clr' = [pc |-> "range", days |-> days, seen |-> {},
                          must |-> DOMAIN Tasks]
               /\ UNCHANGED <<Tasks, freed>>)
  /\ UNCHANGED <<taskToDownlaodMap, downloadToTaskMap, dl, epc, spc, sdl,
                 req, nextId, now, netIO, fs, disk, fsRet,
                 auth, authRet>>

\* main.go 182-184: the loop visits a key, in no particular order, and
\* deletes the task that has ended long enough ago.
ClearVisit ==
  /\ ~crashed
  /\ clr.pc = "range"
  /\ \E taskId \in (DOMAIN Tasks) \ clr.seen :
       RangeStep(/\ Tasks' = IF Ended(Tasks[taskId], clr.days, now)
                               THEN MapDrop(Tasks, {taskId})
                               ELSE Tasks
                 /\ freed' = IF Ended(Tasks[taskId], clr.days, now)
                               THEN freed @@ Freed(Tasks,
                                                   MapDrop(Tasks, {taskId}))
                               ELSE freed
                 /\ clr' = [clr EXCEPT !.seen = @ \cup {taskId},
                                       !.must = @ \ {taskId}])
  /\ UNCHANGED <<taskToDownlaodMap, downloadToTaskMap, dl, epc, spc, sdl,
                 req, nextId, now, netIO, fs, disk, fsRet,
                 auth, authRet>>

\* main.go 185: the loop ends once it has visited every key it must.
ClearEnd ==
  /\ ~crashed
  /\ clr.pc = "range"
  /\ clr.must \cap (DOMAIN Tasks) = {}
  /\ clr' = Idle
  /\ UNCHANGED <<Tasks, taskToDownlaodMap, downloadToTaskMap, dl, epc, spc,
                 sdl, req, nextId, now, netIO, crashed, fs, disk, fsRet,
                 freed,
                 auth, authRet>>

\* --------------------------------------------------------- GetTaskStatus
\* A *DownloadTaskInfo: <<>> is nil, <<taskId>> points to the record the
\* store holds under taskId.
NilTask == <<>>

\* A lookup that makes an entry for the id it does not find.
LookupInserting(tasks, taskId) ==
  IF taskId \in DOMAIN tasks THEN tasks
  ELSE MapPut(tasks, taskId, NewTaskInfo(taskId, "", <<>>, 0))

\* dm.Tasks[taskId] as an expression (main.go 85, 98) leaves the map as it
\* is, also when it holds no such key.
Lookup(tasks, taskId) == tasks

\* The map after the lookups of the ids of taskIds, one after the other
\* (main.go 97-98).
RECURSIVE Lookups(_, _)
Lookups(tasks, taskIds) ==
  IF taskIds = <<>> THEN tasks
  ELSE Lookups(Lookup(tasks, Head(taskIds)), Tail(taskIds))

\* GetTaskStatus (main.go 84-86): the pointer the map holds, nil for a
\* missing id.
GetTaskStatus(tasks, taskId) ==
  IF taskId \in DOMAIN tasks THEN <<taskId>> ELSE NilTask

\* The ids GetTaskStatus is asked for; 3 is the id of no task.
AskedIds == {1, 2, 3}

\* A call of GetTaskStatus.  The read of the map during an assignment to it
\* may end the process ("concurrent map read and map write").
GetTaskStatusCall(r, taskId) ==
  /\ ~crashed
  /\ req[r].pc = "idle"
  /\ \/ /\ InsertUnderWay
        /\ crashed' = TRUE
        /\ UNCHANGED <<req, Tasks>>
     \/ /\ req' = [req EXCEPT ![r] =
                     [pc |-> "done", asked |-> taskId,
                      task |-> GetTaskStatus(Tasks, taskId)]]
        /\ Tasks' = Lookup(Tasks, taskId)
        /\ UNCHANGED crashed
  /\ UNCHANGED <<taskToDownlaodMap, downloadToTaskMap, dl, epc, spc, sdl,
                 nextId, now, netIO, clr, fs, disk, fsRet, freed,
                 auth, authRet>>

\* ------------------------------------------------------------------ List
\* The orders in which a loop over a Go map with the keys S may meet them:
\* the language leaves the order open, and the runtime varies it.
RangeOrders(S) ==
  {o \in [1..Cardinality(S) -> S] :
     \A i, j \in 1..Cardinality(S) : i # j => o[i] # o[j]}

\* A List that lets every task pass.
MatchesAny(task, status) == TRUE

\* main.go 99: a task passes when no status is asked for, or it has it.
Matches(task, status) == status = "" \/ task.Status = status

\* A List that returns a task once, however often its id is given.
ListedOnce(tasks, taskIds, status) ==
  LET all == SelectSeq(taskIds,
                       LAMBDA taskId : /\ taskId \in DOMAIN tasks
                                       /\ Matches(tasks[taskId], status))
      first == {p \in DOMAIN all : \A q \in 1..(p - 1) : all[q] # all[p]}
  IN [k \in 1..Cardinality(first) |->
        all[CHOOSE p \in first : Cardinality({q \in first : q < p}) = k - 1]]

\* main.go 97-102: of the ids of taskIds, in their order, those with a
\* record in the map that passes.  A task is returned as the pointer the
\* map holds, which the model writes as the task's id.
Listed(tasks, taskIds, status) ==
  SelectSeq(taskIds,
            LAMBDA taskId : /\ taskId \in DOMAIN tasks
                            /\ Matches(tasks[taskId], status))

\* List (main.go 88-104): the results a call may return.  With no taskIds
\* the ids are those a loop over the map meets (main.go 90-95).
List(tasks, taskIds, status) ==
  IF Len(taskIds) = 0
  THEN {Listed(tasks, o, status) : o \in RangeOrders(DOMAIN tasks)}
  ELSE {Listed(tasks, taskIds, status)}

\* task.TaskId of the record behind a pointer: the id it is stored under.
TaskIdOf(task) == task

\* A query that takes no id for seen.
NeverSeen(taskIdMap, taskId) == FALSE

\* main.go 254: the id is already in taskIdMap.
Seen(taskIdMap, taskId) == taskId \in taskIdMap

\* main.go 253-258: the tasks of one List result are appended to ret, but
\* for those whose id taskIdMap already has.
RECURSIVE Collect(_, _, _)
Collect(ret, taskIdMap, tasks) ==
  IF tasks = <<>> THEN [ret |-> ret, taskIdMap |-> taskIdMap]
  ELSE IF Seen(taskIdMap, TaskIdOf(Head(tasks)))
       THEN Collect(ret, taskIdMap, Tail(tasks))
       ELSE Collect(Append(ret, Head(tasks)),
                    taskIdMap \cup {TaskIdOf(Head(tasks))}, Tail(tasks))

\* A call of List (main.go 88-104) by request r.  The read of the map
\* during an assignment to it may end the process.
ListCall(r, taskIds, status) ==
  /\ ~crashed
  /\ req[r].pc = "idle"
  /\ \/ /\ InsertUnderWay
        /\ crashed' = TRUE
        /\ UNCHANGED <<req, Tasks>>
     \/ /\ \E tasks \in List(Tasks, taskIds, status) :
             req' = [req EXCEPT ![r] =
                       [pc |-> "done", TaskIds |-> taskIds, Status |-> status,
                        tasks |-> tasks]]
        /\ Tasks' = Lookups(Tasks, taskIds)
        /\ UNCHANGED crashed
  /\ UNCHANGED <<taskToDownlaodMap, downloadToTaskMap, dl, epc, spc, sdl,
                 nextId, now, netIO, clr, fs, disk, fsRet, freed,
                 auth, authRet>>

\* ------------------------------------------------------- handleListTask
\* The taskIds and the status of the conditions a client sends; 3 is the id
\* of no task.
TaskIdLists == {<<>>, <<1>>, <<2, 3, 1, 1>>}

StatusFilters == {"", "failed"}

ListTaskRequestItems ==
  {[TaskIds |-> ids, Status |-> st] : ids \in TaskIdLists, st \in StatusFilters}

\* The "or" lists of the requests a client sends.
OrItemLists ==
  UNION {[1..n -> ListTaskRequestItems] : n \in 0..MaxItems}

\* main.go 242-250: the request is bound; ret and taskIdMap are empty.
\* lists and at keep, for every List call made, what it returned and the
\* store it read.
HandleListTask(r, orItems) ==
  /\ ~crashed
  /\ req[r].pc = "idle"
  /\ req' = [req EXCEPT ![r] = [pc |-> "or", OrItems |-> orItems,
                                ret |-> <<>>, taskIdMap |-> {},
                                lists |-> <<>>, at |-> <<>>]]
  /\ UNCHANGED <<Tasks, taskToDownlaodMap, downloadToTaskMap, dl, epc, spc,
                 sdl, nextId, now, netIO, crashed, clr, fs, disk, fsRet,
                 freed,
                 auth, authRet>>

\* main.go 251-259: one round of the loop over OrItems, a call of List and
\* the appending of its result.  The read of the map during an assignment
\* to it may end the process ("concurrent map read and map write").
ListTaskItem(r) ==
  /\ ~crashed
  /\ req[r].pc = "or"
  /\ Len(req[r].lists) < Len(req[r].OrItems)
  /\ \/ /\ InsertUnderWay
        /\ crashed' = TRUE
        /\ UNCHANGED <<req, Tasks>>
     \/ /\ LET item == req[r].OrItems[Len(req[r].lists) + 1]
           IN /\ \E tasks \in List(Tasks, item.TaskIds, item.Status) :
                   LET c == Collect(req[r].ret, req[r].taskIdMap, tasks)
                   IN req' = [req EXCEPT ![r].ret = c.ret,
                                         ![r].taskIdMap = c.taskIdMap,
                                         ![r].lists = Append(@, tasks),
                                         ![r].at = Append(@, Tasks)]
              /\ Tasks' = Lookups(Tasks, item.TaskIds)
        /\ UNCHANGED crashed
  /\ UNCHANGED <<taskToDownlaodMap, downloadToTaskMap, dl, epc, spc,
                 sdl, nextId, now, netIO, clr, fs, disk, fsRet, freed,
                 auth, authRet>>

\* main.go 261-263: c.JSON writes the records behind the pointers of ret,
\* as they are now, into the response.
ListTaskRespond(r) ==
  /\ ~crashed
  /\ req[r].pc = "or"
  /\ Len(req[r].lists) = Len(req[r].OrItems)
  /\ req' = [req EXCEPT ![r] =
               [pc |-> "done", code |-> 200, OrItems |-> @.OrItems,
                ret |-> @.ret, lists |-> @.lists, at |-> @.at,
                body |-> [k \in 1..Len(@.ret) |-> Deref(@.ret[k])]]]
  /\ UNCHANGED <<Tasks, taskToDownlaodMap, downloadToTaskMap, dl, epc, spc,
                 sdl, nextId, now, netIO, crashed, clr, fs, disk, fsRet,
                 freed,
                 auth, authRet>>

\* ---------------------------------------------------------- genIndexHtml
\* The sizes, in bytes, of the files a directory listing shows.
FileSizes ==
  {0, 1, 1023, 1024, 1025, 1126, 1280, 1792, 1048575, 1048576, 1572864,
   1073741823, 1073741824, 1610612736, 2147483647}

\* GET of a directory that holds a file of `size` bytes (main.go 272-288):
\* the size column of the file's row in the page (main.go 225-236).
GetIndex(r, size) ==
  /\ ~crashed
  /\ req[r].pc = "idle"
  /\ req' = [req EXCEPT ![r] = [pc |-> "done", code |-> 200, size |-> size,
                                text |-> humanReadableSize(size)]]
  /\ UNCHANGED <<Tasks, taskToDownlaodMap, downloadToTaskMap, dl, epc, spc,
                 sdl, nextId, now, netIO, crashed, clr, fs, disk, fsRet,
                 freed,
                 auth, authRet>>

\* ----------------------------------------------------------- the disk
\* The directory a path lies in.
Parent(p) == SubSeq(p, 1, Len(p) - 1)

IsDirOn(d, p) == p \in DOMAIN d /\ d[p].isDir

\* p itself and everything below it.
Under(d, p) == {q \in DOMAIN d : IsPrefix(p, q)}

\* The outcome of a call: the error ("nil" for none) and the disk it leaves.
Outcome(err, d) == [err |-> err, disk |-> d]

\* os.Mkdir(p).
osMkdir(d, p) ==
  IF p \in DOMAIN d THEN {Outcome("file exists", d)}
  ELSE IF ~IsDirOn(d, Parent(p)) THEN {Outcome("no such file or directory", d)}
  ELSE {Outcome("nil", d @@ (p :> DirEntry))}

\* The flags of os.OpenFile that ask for more than reading; O_RDONLY is 0,
\* the empty set of flags.
WriteFlags == {"O_WRONLY", "O_RDWR", "O_APPEND", "O_CREATE", "O_TRUNC"}

\* os.OpenFile(p, flag, perm).  O_CREATE makes a missing file; O_TRUNC
\* empties a regular file, which the system need not do for a file opened
\* for reading only.
osOpenFile(d, p, flag) ==
  IF p \notin DOMAIN d
  THEN IF "O_CREATE" \in flag /\ IsDirOn(d, Parent(p))
       THEN {Outcome("nil", d @@ (p :> FileEntry(0)))}
       ELSE {Outcome("no such file or directory", d)}
  ELSE IF d[p].isDir
  THEN IF flag \cap WriteFlags # {} THEN {Outcome("is a directory", d)}
       ELSE {Outcome("nil", d)}
  ELSE IF "O_TRUNC" \in flag
  THEN {Outcome("nil", [d EXCEPT ![p] = FileEntry(0)])}
         \cup (IF flag \cap {"O_WRONLY", "O_RDWR"} = {}
               THEN {Outcome("nil", d)} ELSE {})
  ELSE {Outcome("nil", d)}

\* os.RemoveAll(p): p and everything below it; no error when p is missing.
osRemoveAll(d, p) ==
  {Outcome("nil", [q \in (DOMAIN d) \ Under(d, p) |-> d[q]])}

\* The disk after p and everything below it has moved to q.
Moved(d, p, q) ==
  LET kept == (DOMAIN d) \ (Under(d, p) \cup Under(d, q))
      new == {q \o SubSeq(x, Len(p) + 1, Len(x)) : x \in Under(d, p)}
  IN [x \in kept \cup new |->
        IF x \in new THEN d[p \o SubSeq(x, Len(q) + 1, Len(x))] ELSE d[x]]

\* os.Rename(p, q), as rename(2) does it; the system refuses a path of more
\* than MaxDepth elements.
osRename(d, p, q) ==
  IF p \notin DOMAIN d \/ ~IsDirOn(d, Parent(q))
  THEN {Outcome("no such file or directory", d)}
  ELSE IF p = q THEN {Outcome("nil", d)}
  ELSE IF IsPrefix(p, q) THEN {Outcome("invalid argument", d)}
  ELSE IF q \in DOMAIN d /\ d[p].isDir /\ ~d[q].isDir
  THEN {Outcome("not a directory", d)}
  ELSE IF q \in DOMAIN d /\ ~d[p].isDir /\ d[q].isDir
  THEN {Outcome("is a directory", d)}
  ELSE IF q \in DOMAIN d /\ Under(d, q) # {q}
  THEN {Outcome("directory not empty", d)}
  ELSE IF \E x \in Under(d, p) : Len(x) - Len(p) + Len(q) > MaxDepth
  THEN {Outcome("file name too long", d)}
  ELSE {Outcome("nil", Moved(d, p, q))}

\* os.Stat(p).
osStat(d, p) ==
  IF p \in DOMAIN d THEN {Outcome("nil", d)}
  ELSE {Outcome("no such file or directory", d)}

\* -------------------------------------------------------------- CustomFS
\* The names a WebDAV client asks for, as the elements after the leading
\* slashes; <<>> is "/".
Names ==
  {<<>>, <<"test.txt">>, <<".hidden">>, <<"..", "d">>, <<"d", "new.txt">>}

\* The flags OpenFile is called with; the second is that of a PUT.
OpenFlags ==
  {{}, {"O_RDWR", "O_CREATE", "O_TRUNC"}, {"O_TRUNC"}, {"O_WRONLY", "O_APPEND"}}

\* The renamings a client asks for: a file into a directory, a file over
\* another, a directory over a file.
Renames ==
  {<<<<"test.txt">>, <<"d", "new.txt">>>>, <<<<".hidden">>, <<"test.txt">>>>,
   <<<<"..", "d">>, <<".hidden">>>>}

\* The allow lists and deny lists the server is set up with.  A pattern is
\* written as its elements between slashes: <<"*.txt">> is "*.txt", and
\* <<"", ".*">> is "/.*".
AllowLists == {<<>>, <<<<"*.txt">>>>}

DenyLists == {<<>>, <<<<".*">>>>, <<<<"", ".*">>>>}

ErrPermission == "permission denied"

\* One element of a pattern against one element of a name: "*" stands for
\* any run of characters, which are all within the element.
Glob(pattern, elem) ==
  CASE pattern = "*.txt" -> elem \in {"test.txt", "new.txt"}
    [] pattern = ".*" -> elem \in {".hidden"}
    [] OTHER -> pattern = elem

\* filepath.Match(pattern, name).  The name is the cleaned one, which
\* begins with a slash: its elements are the empty one before that slash
\* and those after it.  No part of a pattern but a slash passes a slash,
\* so the pattern must have as many elements as the name.
Match(pattern, name) ==
  LET elems == <<"">> \o (IF name = <<>> THEN <<"">> ELSE name)
  IN /\ Len(pattern) = Len(elems)
     /\ \A i \in DOMAIN pattern : Glob(pattern[i], elems[i])

\* resolvePath (server.go 107-140): the path on the disk, or the error.
resolvePath(f, name) ==
  LET clean == Clean(name)
      fullPath == Join(f.root, clean)
  IN IF ~IsPrefix(f.root, fullPath)
     THEN [path |-> <<>>, err |-> ErrPermission]
     ELSE IF /\ Len(f.allowList) > 0
             /\ ~\E i \in DOMAIN f.allowList : Match(f.allowList[i], clean)
     THEN [path |-> <<>>, err |-> ErrPermission]
     ELSE IF \E i \in DOMAIN f.denyList : Match(f.denyList[i], clean)
     THEN [path |-> <<>>, err |-> ErrPermission]
     ELSE [path |-> fullPath, err |-> "nil"]

\* A method of fs returns: fsRet is the call and its error, the disk what
\* the call left.
Returns(call, outcomes) ==
  /\ \E out \in outcomes :
       /\ fsRet' = call @@ [err |-> out.err]
       /\ disk' = out.disk
  /\ UNCHANGED <<Tasks, taskToDownlaodMap, downloadToTaskMap, dl, epc, spc,
                 sdl, req, nextId, now, netIO, crashed, clr, fs, freed,
                 auth, authRet>>

\* The outcome of a method that returns the error of resolvePath.
Refused(res) == {Outcome(res.err, disk)}

\* SetReadOnly, SetAllowList, SetDenyList (server.go 93-105).
SetReadOnly(readOnly) ==
  /\ fs' = [fs EXCEPT !.readOnly = readOnly]
  /\ UNCHANGED <<Tasks, taskToDownlaodMap, downloadToTaskMap, dl, epc, spc,
                 sdl, req, nextId, now, netIO, crashed, clr, disk, fsRet,
                 freed,
                 auth, authRet>>

SetAllowList(paths) ==
  /\ fs' = [fs EXCEPT !.allowList = paths]
  /\ UNCHANGED <<Tasks, taskToDownlaodMap, downloadToTaskMap, dl, epc, spc,
                 sdl, req, nextId, now, netIO, crashed, clr, disk, fsRet,
                 freed,
                 auth, authRet>>

SetDenyList(paths) ==
  /\ fs' = [fs EXCEPT !.denyList = paths]
  /\ UNCHANGED <<Tasks, taskToDownlaodMap, downloadToTaskMap, dl, epc, spc,
                 sdl, req, nextId, now, netIO, crashed, clr, disk, fsRet,
                 freed,
                 auth, authRet>>

\* Mkdir (server.go 143-153).
Mkdir(name) ==
  LET res == resolvePath(fs, name)
  IN Returns([op |-> "Mkdir", name |-> name],
             IF fs.readOnly THEN {Outcome(ErrPermission, disk)}
             ELSE IF res.err # "nil" THEN Refused(res)
             ELSE osMkdir(disk, res.path))

\* An OpenFile that lets O_TRUNC through in read-only mode.
ReadOnlyMaskNoTrunc == {"O_WRONLY", "O_RDWR", "O_APPEND", "O_CREATE"}

\* server.go 157: the flags OpenFile refuses in read-only mode.
ReadOnlyMask == {"O_WRONLY", "O_RDWR", "O_APPEND", "O_CREATE", "O_TRUNC"}

\* OpenFile (server.go 156-172).
OpenFile(name, flag) ==
  LET res == resolvePath(fs, name)
  IN Returns([op |-> "OpenFile", name |-> name, flag |-> flag],
             IF fs.readOnly /\ flag \cap ReadOnlyMask # {}
             THEN {Outcome(ErrPermission, disk)}
             ELSE IF res.err # "nil" THEN Refused(res)
             ELSE osOpenFile(disk, res.path, flag))

\* RemoveAll (server.go 175-185).
RemoveAll(name) ==
  LET res == resolvePath(fs, name)
  IN Returns([op |-> "RemoveAll", name |-> name],
             IF fs.readOnly THEN {Outcome(ErrPermission, disk)}
             ELSE IF res.err # "nil" THEN Refused(res)
             ELSE osRemoveAll(disk, res.path))

\* Rename (server.go 188-204).
Rename(oldName, newName) ==
  LET old == resolvePath(fs, oldName)
      new == resolvePath(fs, newName)
  IN Returns([op |-> "Rename", name |-> oldName, newName |-> newName],
             IF fs.readOnly THEN {Outcome(ErrPermission, disk)}
             ELSE IF old.err # "nil" THEN Refused(old)
             ELSE IF new.err # "nil" THEN Refused(new)
             ELSE osRename(disk, old.path, new.path))

\* Stat (server.go 207-213).
Stat(name) ==
  LET res == resolvePath(fs, name)
  IN Returns([op |-> "Stat", name |-> name],
             IF res.err # "nil" THEN Refused(res)
             ELSE osStat(disk, res.path))

\* ------------------------------------------------------------------ auth
\* The mode the two setters store for their argument (auth.go 48-52, 57-61).
ModeOf(requireAuth) ==
  IF requireAuth THEN PermissionRequired ELSE PermissionNone

\* The methods of the requests: of the three groups of the switch, of the
\* two WebDAV lists, in the case HTTP uses and not, and of no group.
Methods ==
  {"GET", "POST", "PROPFIND", "propfind", "MKCOL", "get", "TRACE"}

\* strings.EqualFold: the two are equal but for the case of their letters;
\* of Methods, two are written in lower case.
EqualFold(s, t) ==
  LET Fold(method) == CASE method = "get" -> "GET"
                        [] method = "propfind" -> "PROPFIND"
                        [] OTHER -> method
  IN Fold(s) = Fold(t)

\* isWebDAVReadMethod (auth.go 93-101).
isWebDAVReadMethod(method) ==
  \E m \in {"PROPFIND"} : EqualFold(method, m)

\* isWebDAVWriteMethod (auth.go 104-112).
isWebDAVWriteMethod(method) ==
  \E m \in {"MKCOL", "COPY", "MOVE", "LOCK", "UNLOCK", "PROPPATCH"} :
    EqualFold(method, m)

\* auth.go 67 and 116: no user name or no password is configured.
Unconfigured(a) == a.Username = "" \/ a.Password = ""

\* IsAuthRequired (auth.go 65-90); the path is not looked at.
IsAuthRequired(a, method, path) ==
  IF Unconfigured(a) THEN FALSE
  ELSE IF method \in {"GET", "HEAD", "OPTIONS"}
       THEN a.ReadPermission = PermissionRequired
  ELSE IF method \in {"POST", "PUT", "DELETE", "PATCH"}
       THEN a.WritePermission = PermissionRequired
  ELSE IF isWebDAVWriteMethod(method)
       THEN a.WritePermission = PermissionRequired
  ELSE IF isWebDAVReadMethod(method)
       THEN a.ReadPermission = PermissionRequired
  ELSE TRUE

\* A ValidateCredentials that compares the user name only.
ValidateCredentialsUsernameOnly(a, username, password) ==
  IF Unconfigured(a) THEN TRUE
  ELSE username = a.Username

\* ValidateCredentials (auth.go 115-124): subtle.ConstantTimeCompare is 1
\* for equal byte strings and 0 for any others.
ValidateCredentials(a, username, password) ==
  IF Unconfigured(a) THEN TRUE
  ELSE username = a.Username /\ password = a.Password

\* The Authorization header of a request: none, of the Basic scheme with a
\* user name and a password, or of another scheme.
NoAuthorization == [scheme |-> ""]

Authorizations ==
  {NoAuthorization, [scheme |-> "Bearer"]}
    \cup {[scheme |-> "Basic", username |-> u, password |-> p] :
            u \in {"admin", "guest"}, p \in {"secret", "wrong"}}

\* The requests the middlewares serve.  Header holds the X-Auth-User and
\* X-Auth-Pass headers, "" for one the request does not have, as GetHeader
\* gives it.
Requests ==
  [Method : Methods, Path : {"/"}, Authorization : Authorizations,
   Header : {[h \in {"X-Auth-User", "X-Auth-Pass"} |->
                IF h = "X-Auth-User" THEN u ELSE p] :
               u \in {"", "admin"}, p \in {"", "secret", "wrong"}}]

\* Request.BasicAuth(): the user name and the password of an Authorization
\* header of the Basic scheme, and whether there is one.
BasicAuth(request) ==
  IF request.Authorization.scheme = "Basic"
  THEN [username |-> request.Authorization.username,
        password |-> request.Authorization.password, ok |-> TRUE]
  ELSE [username |-> "", password |-> "", ok |-> FALSE]

GetHeader(request, key) == request.Header[key]

\* The next handler has served the request.
Next200 == [status |-> 200, header |-> <<>>, next |-> TRUE]

\* auth.go 140-142 and 163-165: the challenge, and the chain cut short.
Challenge401(a) ==
  [status |-> 401,
   header |-> [h \in {"WWW-Authenticate"} |->
                 "Basic realm=\"" \o a.Realm \o "\""],
   next |-> FALSE]

\* auth.go 199-203: the JSON refusal of RequireAPIAuth.
Refusal401 ==
  [status |-> 401, header |-> <<>>, next |-> FALSE,
   error |-> "Authentication required"]

\* The body GinMiddleware and HTTPMiddleware share (auth.go 128-146 and
\* 151-169).
BasicMiddleware(a, request) ==
  IF ~IsAuthRequired(a, request.Method, request.Path) THEN Next200
  ELSE LET cred == BasicAuth(request)
       IN IF ~cred.ok \/ ~ValidateCredentials(a, cred.username, cred.password)
          THEN Challenge401(a)
          ELSE Next200

\* CheckAPIAuth (auth.go 173-193).
CheckAPIAuth(a, request) ==
  IF a.WritePermission # PermissionRequired THEN TRUE
  ELSE LET cred == BasicAuth(request)
           headerUser == GetHeader(request, "X-Auth-User")
           headerPass == GetHeader(request, "X-Auth-Pass")
       IN IF cred.ok /\ ValidateCredentials(a, cred.username, cred.password)
          THEN TRUE
          ELSE IF headerUser # "" /\ headerPass # ""
               THEN ValidateCredentials(a, headerUser, headerPass)
               ELSE FALSE

\* A middleware has served a request: what it did.
Responds(mw, request, res) ==
  /\ authRet' = [op |-> mw, request |-> request] @@ res
  /\ UNCHANGED <<Tasks, taskToDownlaodMap, downloadToTaskMap, dl, epc, spc,
                 sdl, req, nextId, now, netIO, crashed, clr, fs, disk, fsRet,
                 freed, auth>>

\* The server sets up its AuthConfig.
Configures(a) ==
  /\ auth' = a
  /\ UNCHANGED <<Tasks, taskToDownlaodMap, downloadToTaskMap, dl, epc, spc,
                 sdl, req, nextId, now, netIO, crashed, clr, fs, disk, fsRet,
                 freed, authRet>>

NewAuthConfigCall(username, password) ==
  Configures(NewAuthConfig(username, password))

\* SetReadPermission (auth.go 47-53).
SetReadPermission(requireAuth) ==
  Configures([auth EXCEPT !.ReadPermission = ModeOf(requireAuth)])

\* SetWritePermission (auth.go 56-62).
SetWritePermission(requireAuth) ==
  Configures([auth EXCEPT !.WritePermission = ModeOf(requireAuth)])

\* GinMiddleware (auth.go 127-147) serves a request.
GinMiddleware(request) ==
  Responds("GinMiddleware", request, BasicMiddleware(auth, request))

\* HTTPMiddleware (auth.go 150-170) serves a request.
HTTPMiddleware(request) ==
  Responds("HTTPMiddleware", request, BasicMiddleware(auth, request))

\* RequireAPIAuth (auth.go 196-207) serves a request.
RequireAPIAuth(request) ==
  Responds("RequireAPIAuth", request,
           IF CheckAPIAuth(auth, request) THEN Next200 ELSE Refusal401)

\* ----------------------------------------------------------------- clock
Tick ==
  /\ ~crashed
  /\ now < MaxTime
  /\ now' = now + 1
  /\ UNCHANGED <<Tasks, taskToDownlaodMap, downloadToTaskMap, dl, epc,
                 spc, sdl, req, nextId, netIO, crashed,
                 clr, fs, disk, fsRet, freed,
                 auth, authRet>>

\* --------------------------------------------------------- specifications
\* The directory of the tasks Spec follows.
PubDir == Join(rootDir, <<"pub">>)

\* Spec: the life of a task.  AddTask runs to its return in one step; the
\* executor and the sampler it starts take a step per field they write.
Next ==
  \/ \E url \in Urls : AddTaskOk(url, PubDir)
  \/ \E d \in Handles : RecvBytes(d)
  \/ \E d \in Handles : StartOk(d)
  \/ \E d \in Handles : StartErr(d)
  \/ \E d \in Handles : CompleteTask(d)
  \/ \E d \in Handles : FailTask(d)
  \/ \E d \in Handles : RunProgressCheck(d)
  \/ \E d \in Handles : ProgressFunc(d)
  \/ \E days \in Days : ClearEndedTasks(days)
  \/ Tick

Spec == Init /\ [][Next]_vars

\* SpecFair: Spec with the scheduling of the Go runtime, which lets no
\* goroutine that can run wait for ever: the sampler of every download goes
\* on with its loop.
SamplerStep(d) == RunProgressCheck(d) \/ ProgressFunc(d)

SpecFair == Spec /\ \A d \in Handles : WF_vars(SamplerStep(d))

\* SpecAdd: POST requests served concurrently, AddTask a step per line and
\* two steps per map assignment.  The transfers started are not followed.
NextAdd ==
  \/ \E r \in Reqs, uri \in Uris, url \in Urls : HandlePost(r, uri, url)
  \/ \E r \in Reqs : AddTaskInit(r)
  \/ \E r \in Reqs : AddTaskUuid(r)
  \/ \E r \in Reqs, m \in {"Tasks", "downloadToTaskMap", "taskToDownlaodMap"} :
       MapAssignBegin(r, m)
  \/ \E r \in Reqs, m \in {"Tasks", "downloadToTaskMap", "taskToDownlaodMap"} :
       MapAssignEnd(r, m)
  \/ \E r \in Reqs : AddTaskReturn(r)

SpecAdd == Init /\ [][NextAdd]_vars

\* The request that adds a task while ClearEndedTasks runs.
Adder == 1

\* SpecClear: ClearEndedTasks, a step per key of its loop.  One task is
\* added first and its transfer fails; a POST request adds another, a step
\* per line of AddTask, while the loop runs.
NextClear ==
  \/ \E url \in Urls : AddTaskOk(url, PubDir)
  \/ \E url \in Urls : HandlePost(Adder, <<"pub">>, url)
  \/ AddTaskInit(Adder)
  \/ AddTaskUuid(Adder)
  \/ \E m \in {"Tasks", "downloadToTaskMap", "taskToDownlaodMap"} :
       MapAssignBegin(Adder, m)
  \/ \E m \in {"Tasks", "downloadToTaskMap", "taskToDownlaodMap"} :
       MapAssignEnd(Adder, m)
  \/ AddTaskReturn(Adder)
  \/ \E d \in Handles : StartErr(d)
  \/ \E d \in Handles : FailTask(d)
  \/ \E days \in Days : ClearBegin(days)
  \/ ClearVisit
  \/ ClearEnd
  \/ Tick

SpecClear == Init /\ [][NextClear]_vars

\* The request that queries the tasks.
Lister == 2

\* SpecList: a task query, a step per List call, while tasks are added and
\* their transfers end.
NextList ==
  \/ \E url \in Urls : AddTaskUpTo(url, PubDir, MaxListed)
  \/ \E d \in Handles : StartOk(d)
  \/ \E d \in Handles : StartErr(d)
  \/ \E d \in Handles : CompleteTask(d)
  \/ \E d \in Handles : FailTask(d)
  \/ \E orItems \in OrItemLists : HandleListTask(Lister, orItems)
  \/ ListTaskItem(Lister)
  \/ ListTaskRespond(Lister)

SpecList == Init /\ [][NextList]_vars

\* SpecRead: Spec with calls of GetTaskStatus and List, which read the
\* store, next to the life of a task.
NextRead ==
  \/ Next
  \/ \E taskId \in AskedIds : GetTaskStatusCall(Lister, taskId)
  \/ \E taskIds \in TaskIdLists, status \in StatusFilters :
       ListCall(Lister, taskIds, status)

SpecRead == Init /\ [][NextRead]_vars

\* The request that calls GetTaskStatus while a task query is served.
Getter == 1

\* The task queries with at most one condition.
ShortOrItemLists == {orItems \in OrItemLists : Len(orItems) <= 1}

\* SpecQuery: the three reads of the store, GetTaskStatus, List and the
\* task query that calls it, while a task is added, ends and is cleared.
\* The sampler's progress is not followed.
NextQuery ==
  \/ \E url \in Urls : AddTaskOk(url, PubDir)
  \/ \E d \in Handles : StartOk(d)
  \/ \E d \in Handles : StartErr(d)
  \/ \E d \in Handles : CompleteTask(d)
  \/ \E d \in Handles : FailTask(d)
  \/ \E days \in Days : ClearEndedTasks(days)
  \/ Tick
  \/ \E taskId \in AskedIds : GetTaskStatusCall(Getter, taskId)
  \/ \E orItems \in ShortOrItemLists : HandleListTask(Lister, orItems)
  \/ ListTaskItem(Lister)
  \/ ListTaskRespond(Lister)

SpecQuery == Init /\ [][NextQuery]_vars

\* SpecCrowd: POST requests for the same directory served concurrently, as
\* in SpecAdd, and the executors and samplers of the tasks they add.
NextCrowd ==
  \/ \E r \in Reqs : HandlePost(r, <<"pub">>, "http://up/f")
  \/ \E r \in Reqs : AddTaskInit(r)
  \/ \E r \in Reqs : AddTaskUuid(r)
  \/ \E r \in Reqs, m \in {"Tasks", "downloadToTaskMap", "taskToDownlaodMap"} :
       MapAssignBegin(r, m)
  \/ \E r \in Reqs, m \in {"Tasks", "downloadToTaskMap", "taskToDownlaodMap"} :
       MapAssignEnd(r, m)
  \/ \E r \in Reqs : AddTaskReturn(r)
  \/ \E d \in Handles : StartOk(d)
  \/ \E d \in Handles : StartErr(d)
  \/ \E d \in Handles : CompleteTask(d)
  \/ \E d \in Handles : FailTask(d)
  \/ \E d \in Handles : RunProgressCheck(d)
  \/ \E d \in Handles : ProgressFunc(d)

SpecCrowd == Init /\ [][NextCrowd]_vars

\* SpecIndex: directory listings, which show the sizes of files.
NextIndex == \E r \in Reqs, size \in FileSizes : GetIndex(r, size)

SpecIndex == Init /\ [][NextIndex]_vars

\* SpecAuth: the set-up of an AuthConfig and the requests its middlewares
\* serve.
NextAuth ==
  \/ \E username \in {"", "admin"}, password \in {"", "secret"} :
       NewAuthConfigCall(username, password)
  \/ \E requireAuth \in BOOLEAN : SetReadPermission(requireAuth)
  \/ \E requireAuth \in BOOLEAN : SetWritePermission(requireAuth)
  \/ \E request \in Requests : GinMiddleware(request)
  \/ \E request \in Requests : HTTPMiddleware(request)
  \/ \E request \in Requests : RequireAPIAuth(request)

SpecAuth == Init /\ [][NextAuth]_vars

\* SpecFS: the calls the WebDAV handler and the server's set-up make on a
\* CustomFS.
NextFS ==
  \/ \E readOnly \in BOOLEAN : SetReadOnly(readOnly)
  \/ \E paths \in AllowLists : SetAllowList(paths)
  \/ \E paths \in DenyLists : SetDenyList(paths)
  \/ \E name \in Names : Mkdir(name)
  \/ \E name \in Names, flag \in OpenFlags : OpenFile(name, flag)
  \/ \E name \in Names : RemoveAll(name)
  \/ \E names \in Renames : Rename(names[1], names[2])
  \/ \E name \in Names : Stat(name)

SpecFS == Init /\ [][NextFS]_vars

\* ------------------------------------------------------------------ claims
\* The goroutines of download d have both ended.
GoroutinesDone(d) == epc[d].pc = "done" /\ spc[d] = "done"

\* A step of ProgressFunc for download d.
IsProgressStep(d) ==
  /\ d \in DOMAIN spc
  /\ spc[d] \in {"fn", "pf_downloaded", "pf_totalsize", "pf_speed"}
  /\ spc'[d] # spc[d]

\* C1: terminal states are absorbing.  Once CompleteTask or FailTask has
\* returned for a task, no step changes its status, errMsg or endAt.
C1_TerminalAbsorbing ==
  [][\A d \in DOMAIN epc :
       LET t == epc[d].taskId
       IN (epc[d].pc = "done" /\ t \in DOMAIN Tasks /\ t \in DOMAIN Tasks')
          => /\ Tasks'[t].Status = Tasks[t].Status
             /\ Tasks'[t].ErrMsg = Tasks[t].ErrMsg
             /\ Tasks'[t].EndAt = Tasks[t].EndAt]_vars

\* C2: in every state a reader can see, a task's endAt is set if and only
\* if its status is finished or failed.
C2_EndAtIffTerminal ==
  \A t \in DOMAIN Tasks :
    (Tasks[t].EndAt # NilTime) <=> IsTerminal(Tasks[t].Status)

\* C3: a step of ProgressFunc on a task whose status is finished or failed
\* changes no field of the task record.
C3_ProgressOnTerminalNoOp ==
  [][\A d \in DOMAIN spc :
       LET t == LookupTask(d)
       IN (IsProgressStep(d) /\ t \in DOMAIN Tasks /\ IsTerminal(Tasks[t].Status))
          => (t \in DOMAIN Tasks' /\ Tasks'[t] = Tasks[t])]_vars

\* The requests AddTask has returned an id to.
Returned == {r \in Reqs : req[r].pc = "done" /\ req[r].code = 200}

\* C4: concurrent AddTask calls all return, with distinct ids, each id with
\* its own record in the store; the concurrent inserts lose no call.
C4_ConcurrentAddDistinct ==
  /\ ~crashed
  /\ \A r \in Returned :
       /\ req[r].taskId \in DOMAIN Tasks
       /\ Tasks[req[r].taskId].TaskId = req[r].taskId
       /\ \A q \in Returned \ {r} : req[q].taskId # req[r].taskId

\* A path relative to the root that stays inside it.
InsideRoot(relPath) == relPath = <<>> \/ Head(relPath) # ".."

\* C5: every task in the store has its destination inside the root: AddTask
\* rejects a directory outside it before creating anything.
C5_DestinationInsideRoot ==
  \A t \in DOMAIN Tasks : InsideRoot(Tasks[t].Filepath)

\* C6: AddTask does no network I/O before it returns; only the executor it
\* starts does.
C6_AddTaskNoNetworkIO == "AddTask" \notin netIO

\* The requests whose AddTask call, for an unreachable host, has returned.
UnreachableDone ==
  {r \in Reqs : /\ req[r].pc = "done"
                /\ "url" \in DOMAIN req[r]
                /\ ~Reachable(req[r].url)}

\* C7: AddTask for an unreachable host creates a task (which then fails).
C7_UnreachableCreatesTask ==
  \A r \in UnreachableDone :
    "taskId" \in DOMAIN req[r] /\ req[r].taskId \in DOMAIN Tasks

\* C8: a task whose transfer has ended and whose goroutines have run to
\* their end is finished or failed, with endAt set, and stays so.
C8_EndsTerminal ==
  \A d \in DOMAIN epc :
    (GoroutinesDone(d) /\ epc[d].taskId \in DOMAIN Tasks)
      => /\ IsTerminal(Tasks[epc[d].taskId].Status)
         /\ Tasks[epc[d].taskId].EndAt # NilTime

\* C9: the downloaded byte count of a task never decreases from one state
\* to the next, so no sequence of snapshots sees it decrease.
C9_DownloadedMonotone ==
  [][\A t \in (DOMAIN Tasks) \cap (DOMAIN Tasks') :
       Tasks'[t].Downloaded >= Tasks[t].Downloaded]_vars

\* C9 witness: a sampler has recorded the bytes of a whole file, in more
\* than one sample.
C9_Witness ==
  \E d \in DOMAIN spc :
    /\ LookupTask(d) \in DOMAIN Tasks
    /\ Tasks[LookupTask(d)].Downloaded = MaxBytes
    /\ Tasks[LookupTask(d)].Status = "downloading"
    /\ spc[d] = "pf_totalsize"

\* C10: ClearEndedTasks(0), called in any state, leaves exactly the tasks
\* that are pending or downloading, and a second call changes nothing.
C10_ClearZeroRemovesTerminal ==
  LET once == Cleared(Tasks, 0, now)
  IN /\ DOMAIN once = {t \in DOMAIN Tasks : ~IsTerminal(Tasks[t].Status)}
     /\ Cleared(once, 0, now) = once

\* C11: for every retention window, ClearEndedTasks deletes exactly the
\* finished or failed tasks whose endAt is older than the window; a pending
\* or downloading task is never deleted, whatever happened to it before.
C11_ClearDeletesExactlyOldTerminal ==
  \A days \in Days :
    (DOMAIN Tasks) \ (DOMAIN Cleared(Tasks, days, now)) =
      {t \in DOMAIN Tasks : /\ IsTerminal(Tasks[t].Status)
                            /\ Tasks[t].EndAt # NilTime
                            /\ now - Tasks[t].EndAt[1] > days * TicksPerDay}

\* C12: ClearEndedTasks is safe next to AddTask: its loop over Tasks never
\* runs while an insert into Tasks is under way, and the process lives.
C12_ClearConcurrentSafe ==
  /\ ~(clr.pc = "range" /\ InsertUnderWay)
  /\ (clr.pc = "range" => ~crashed)

\* The task queries that have called List, and the calls of each.
Queries == {r \in Reqs : "lists" \in DOMAIN req[r]}

ListCalls(r) == DOMAIN req[r].lists

\* The tasks of a store that a condition asks for.
Asked(store, item) ==
  {t \in DOMAIN store :
     /\ item.TaskIds = <<>> \/ t \in Range(item.TaskIds)
     /\ item.Status = "" \/ store[t].Status = item.Status}

\* C13: every List call returns exactly the tasks of the store whose id is
\* among taskIds (any id when taskIds is empty) and whose status is the one
\* asked for (any status when it is empty); an unknown id adds nothing.
C13_ListReturnsMatching ==
  \A r \in Queries : \A i \in ListCalls(r) :
    Range(req[r].lists[i]) = Asked(req[r].at[i], req[r].OrItems[i])

\* C13 witness: a List call for the failed tasks among ids that include an
\* unknown one has returned a task and left out another task of the store.
C13_Witness ==
  \E r \in Queries : \E i \in ListCalls(r) :
    /\ req[r].OrItems[i].Status = "failed"
    /\ 3 \in Range(req[r].OrItems[i].TaskIds)
    /\ req[r].lists[i] # <<>>
    /\ Range(req[r].lists[i]) # DOMAIN req[r].at[i]

\* uuid.New() is modelled by a counter: the task with the smaller id was
\* created first.
CreatedBefore(a, b) == a < b

\* C14: a List call over the whole store returns the tasks in the order of
\* their creation.
C14_ListInCreationOrder ==
  \A r \in Queries : \A i \in ListCalls(r) :
    req[r].OrItems[i].TaskIds = <<>> =>
      \A j, k \in DOMAIN req[r].lists[i] :
        j < k => CreatedBefore(req[r].lists[i][j], req[r].lists[i][k])

\* The List results of a query, one after the other.
RECURSIVE Flat(_)
Flat(lists) == IF lists = <<>> THEN <<>> ELSE Head(lists) \o Flat(Tail(lists))

\* The place of the first x in a sequence that has one.
FirstPos(seq, x) ==
  CHOOSE i \in DOMAIN seq : seq[i] = x /\ \A j \in 1..(i - 1) : seq[j] # x

\* C15: what the ListOr query has collected is the union of its List
\* results so far, every task once, in the order in which the tasks were
\* first seen; with no condition it is empty.
C15_ListOrUnionOnce ==
  \A r \in Queries :
    LET ret == req[r].ret
        all == Flat(req[r].lists)
    IN /\ Range(ret) = Range(all)
       /\ \A j, k \in DOMAIN ret :
            j < k => /\ ret[j] # ret[k]
                     /\ FirstPos(all, ret[j]) < FirstPos(all, ret[k])
       /\ req[r].OrItems = <<>> => ret = <<>>

\* C15 witness: a query with two conditions has been answered with two
\* tasks, one of which both of its List calls returned.
C15_Witness ==
  \E r \in Queries :
    /\ req[r].pc = "done"
    /\ Len(req[r].lists) = 2
    /\ Len(req[r].ret) = 2
    /\ Range(req[r].lists[1]) \cap Range(req[r].lists[2]) # {}

\* The List call of a query that first returned the task at place k of ret.
FirstCall(r, k) ==
  CHOOSE i \in ListCalls(r) :
    /\ req[r].ret[k] \in Range(req[r].lists[i])
    /\ \A j \in 1..(i - 1) : req[r].ret[k] \notin Range(req[r].lists[j])

\* C16: the records List hands out are copies: the response of a query
\* shows every task as it was when List returned it.
C16_ListReturnsCopies ==
  \A r \in Queries :
    req[r].pc = "done" =>
      \A k \in DOMAIN req[r].ret :
        req[r].body[k] = req[r].at[FirstCall(r, k)][req[r].ret[k]]

\* The step in which the AddTask call of request r returns an error.
ReturnsError(r) == req[r].pc = "Init" /\ req'[r].pc = "done"

\* C17: the step in which AddTask returns an error changes none of the
\* manager's three maps and starts no goroutine; the caller gets the error
\* and no task id.
C17_FailedAddChangesNothing ==
  [][\A r \in Reqs :
       ReturnsError(r) =>
         /\ Tasks' = Tasks
         /\ taskToDownlaodMap' = taskToDownlaodMap
         /\ downloadToTaskMap' = downloadToTaskMap
         /\ epc' = epc /\ spc' = spc
         /\ req'[r].code = 500
         /\ "taskId" \notin DOMAIN req'[r]]_vars

\* C17 witness: an AddTask call has returned an error while the store held
\* the task of another call.
C17_Witness ==
  \E r \in Reqs :
    /\ req[r].pc = "done"
    /\ req[r].code = 500
    /\ Tasks # <<>>

\* The executor's positions inside CompleteTask, and inside FailTask.
InComplete == {"CompleteTask", "c_status", "c_endat"}

InFail == {"FailTask", "f_status", "f_errmsg", "f_endat"}

Listings == {r \in Reqs : "text" \in DOMAIN req[r]}

\* f tenths are as near to rem/unit as tenths get: 2 * |f * unit - 10 * rem|
\* is at most unit, with both sides taken in units of 1024 and below.
Nearest(f, rem, unit) ==
  LET d == f * (unit \div 1024) - 10 * (rem \div 1024)
      e == 1024 * d - 10 * (rem % 1024)
  IN /\ d <= (unit \div 1024) \div 2 + 10
     /\ -d <= (unit \div 1024) \div 2 + 10
     /\ e <= 512 * (unit \div 1024)
     /\ -e <= 512 * (unit \div 1024)

\* The text is n/unit with one decimal, then the suffix.
Shows(text, n, unit, suffix) ==
  \E f \in 0..10 :
    /\ Nearest(f, n % unit, unit)
    /\ text = ToString(n \div unit + f \div 10) \o "." \o ToString(f % 10)
                \o suffix

\* C19: a size below 1024 is shown as the integer and "B", below 1024^2 as
\* n/1024 with one decimal and "KB", below 1024^3 with one decimal and
\* "MB", otherwise with one decimal and "GB"; 1023, 1024, 1048576 and
\* 1073741824 are shown as "1023B", "1.0KB", "1.0MB" and "1.0GB".
C19_SizeUnitByThreshold ==
  \A r \in Listings :
    LET n == req[r].size
        text == req[r].text
    IN /\ n < 1024 => text = ToString(n) \o "B"
       /\ (1024 <= n /\ n < 1024 * 1024) => Shows(text, n, 1024, "KB")
       /\ (1024 * 1024 <= n /\ n < 1024 * 1024 * 1024)
            => Shows(text, n, 1024 * 1024, "MB")
       /\ 1024 * 1024 * 1024 <= n => Shows(text, n, 1024 * 1024 * 1024, "GB")
       /\ n = 1023 => text = "1023B"
       /\ n = 1024 => text = "1.0KB"
       /\ n = 1048576 => text = "1.0MB"
       /\ n = 1073741824 => text = "1.0GB"

\* C19 witness: listings have shown a file of exactly 1024 bytes and a file
\* of exactly 1024^3 bytes.
C19_Witness ==
  /\ \E r \in Listings : req[r].size = 1024
  /\ \E r \in Listings : req[r].size = 1073741824

\* The call that returns in this step, if one does.
Called(op) == fsRet' # fsRet /\ fsRet'.op = op

\* The path on the disk a name stands for, and whether the lists admit it.
Target(name) == davRoot \o Clean(name)

Admitted(name) == resolvePath(fs, name).err = "nil"

\* C20: in read-only mode Mkdir, RemoveAll, Rename and an OpenFile with a
\* write, create, append or truncate flag return the permission error and
\* leave the disk as it is, while Stat and an OpenFile for reading of an
\* admitted path that exists succeed; out of read-only mode Mkdir makes a
\* missing directory again.
C20_ReadOnlyRefusesWrites ==
  [][/\ (fs.readOnly /\ (Called("Mkdir") \/ Called("RemoveAll")
                          \/ Called("Rename")))
          => (fsRet'.err = ErrPermission /\ disk' = disk)
     /\ (fs.readOnly /\ Called("OpenFile")
           /\ fsRet'.flag \cap {"O_WRONLY", "O_RDWR", "O_CREATE", "O_APPEND",
                                "O_TRUNC"} # {})
          => (fsRet'.err = ErrPermission /\ disk' = disk)
     /\ (fs.readOnly /\ Called("Stat") /\ Admitted(fsRet'.name)
           /\ Target(fsRet'.name) \in DOMAIN disk)
          => (fsRet'.err = "nil" /\ disk' = disk)
     /\ (fs.readOnly /\ Called("OpenFile") /\ fsRet'.flag = {}
           /\ Admitted(fsRet'.name) /\ Target(fsRet'.name) \in DOMAIN disk)
          => (fsRet'.err = "nil" /\ disk' = disk)
     /\ (~fs.readOnly /\ Called("Mkdir") /\ Admitted(fsRet'.name)
           /\ Target(fsRet'.name) \notin DOMAIN disk
           /\ IsDirOn(disk, Parent(Target(fsRet'.name))))
          => (fsRet'.err = "nil" /\ IsDirOn(disk', Target(fsRet'.name)))]_vars

\* C20 witness: the server, which made the directory d while it could, is
\* in read-only mode and has refused an OpenFile that would empty a file
\* that exists.
C20_Witness ==
  /\ fs.readOnly
  /\ fsRet.op = "OpenFile"
  /\ fsRet.flag = {"O_TRUNC"}
  /\ fsRet.err = ErrPermission
  /\ Target(fsRet.name) \in DOMAIN disk
  /\ IsDirOn(disk, Append(davRoot, "d"))

\* The names of the files TestCustomFS asks for (server.go 600, 620).
HiddenName == <<".hidden">>

TextName == <<"test.txt">>

\* The lists TestCustomFS sets (server.go 597, 616): ".*" and "*.txt".
DenyHidden == <<<<".*">>>>

AllowText == <<<<"*.txt">>>>

\* A pattern of the list matches the name resolvePath tests.
MatchesSome(list, name) == \E i \in DOMAIN list : Match(list[i], Clean(name))

\* C21: with the deny list [".*"] resolvePath refuses /.hidden; with the
\* allow list ["*.txt"] and no deny list it admits /test.txt and refuses the
\* names that match no allow pattern; a name that matches a deny pattern is
\* refused even when it matches an allow pattern.
C21_AccessListsAsTested ==
  /\ fs.denyList = DenyHidden
       => resolvePath(fs, HiddenName).err = ErrPermission
  /\ (fs.allowList = AllowText /\ fs.denyList = <<>>)
       => /\ resolvePath(fs, TextName).err = "nil"
          /\ \A name \in Names :
               ~MatchesSome(fs.allowList, name)
                 => resolvePath(fs, name).err = ErrPermission
  /\ \A name \in Names :
       (MatchesSome(fs.denyList, name) /\ MatchesSome(fs.allowList, name))
         => resolvePath(fs, name).err = ErrPermission

\* The status changes of the task state machine.
StatusChanges ==
  {<<"pending", "downloading">>, <<"pending", "finished">>,
   <<"pending", "failed">>, <<"downloading", "finished">>,
   <<"downloading", "failed">>}

\* This step is one of the executor, or of the sampler, of task t.
ExecutorStepOf(t) ==
  \E d \in DOMAIN epc : epc[d].taskId = t /\ epc'[d].pc # epc[d].pc

SamplerStepOf(t) ==
  \E d \in DOMAIN spc : LookupTask(d) = t /\ IsProgressStep(d)

\* C22: every change of a task's status is pending->downloading,
\* pending->finished, pending->failed, downloading->finished or
\* downloading->failed; a change into finished or failed is a step of the
\* task's executor, a change into downloading a step of its sampler, and no
\* task returns to pending.
C22_StatusMachine ==
  [][\A t \in (DOMAIN Tasks) \cap (DOMAIN Tasks') :
       Tasks'[t].Status # Tasks[t].Status
         => /\ <<Tasks[t].Status, Tasks'[t].Status>> \in StatusChanges
            /\ IsTerminal(Tasks'[t].Status) => ExecutorStepOf(t)
            /\ Tasks'[t].Status = "downloading" => SamplerStepOf(t)]_vars

\* The step in which ProgressFunc for download d takes its sample and
\* decides on the status (main.go 107-112).
TakesSample(d) == spc[d] = "fn" /\ spc'[d] = "pf_downloaded"

\* C23: the sampler moves a pending task to downloading exactly when its
\* sample is strictly greater than the downloaded value the task records;
\* a sample that is not, such as a first sample of 0 bytes, leaves the task
\* pending, and no other step of ProgressFunc changes the status.
C23_DownloadingOnIncrease ==
  [][\A d \in DOMAIN spc :
       LET t == LookupTask(d)
       IN (t \in DOMAIN Tasks /\ t \in DOMAIN Tasks')
            => /\ (TakesSample(d) /\ Tasks[t].Status = "pending")
                    => Tasks'[t].Status =
                         IF dl[d].size > Tasks[t].Downloaded
                         THEN "downloading" ELSE "pending"
               /\ (IsProgressStep(d) /\ ~TakesSample(d))
                    => Tasks'[t].Status = Tasks[t].Status]_vars

\* C23 witness: the sampler of a task whose transfer is under way has taken
\* a sample of more bytes than the task records, and the task, pending
\* until then, is downloading.
C23_Witness ==
  \E d \in DOMAIN spc :
    /\ spc[d] = "pf_downloaded"
    /\ epc[d].pc = "start"
    /\ LookupTask(d) \in DOMAIN Tasks
    /\ Tasks[LookupTask(d)].Downloaded = 0
    /\ sdl[d] > 0
    /\ Tasks[LookupTask(d)].Status = "downloading"

\* C24: in every state a task's errMsg is non-empty only if its status is
\* failed.
C24_ErrMsgOnlyWhenFailed ==
  \A t \in DOMAIN Tasks : Tasks[t].ErrMsg # "" => Tasks[t].Status = "failed"

\* The executor of download d has returned from CompleteTask or FailTask.
OutcomeRecorded(d) == d \in DOMAIN epc /\ epc[d].pc = "done"

\* The sampler of download d has left the loop of RunProgress.
SamplerEnded(d) == d \in DOMAIN spc /\ spc[d] = "done"

\* C25: once the executor has recorded the terminal outcome of a task, the
\* task's sampler eventually leaves its loop and calls ProgressFunc no more
\* (or the process has ended in a panic, and every goroutine with it); and
\* no step of the sampler writes finished or failed.
C25_SamplerStops ==
  /\ \A d \in Handles : OutcomeRecorded(d) ~> (SamplerEnded(d) \/ crashed)
  /\ [][\A t \in (DOMAIN Tasks) \cap (DOMAIN Tasks') :
          (SamplerStepOf(t) /\ Tasks'[t].Status # Tasks[t].Status)
            => ~IsTerminal(Tasks'[t].Status)]_vars

\* C25 witness: the sampler of a task has recorded a sample, the executor
\* has recorded the outcome, and the sampler has left its loop.
C25_Witness ==
  \E d \in DOMAIN spc :
    /\ OutcomeRecorded(d)
    /\ SamplerEnded(d)
    /\ dl[d].StopProgress
    /\ LookupTask(d) \in DOMAIN Tasks
    /\ Tasks[LookupTask(d)].Speed # ""
    /\ ~crashed

StoresRecord(r) == req[r].pc = "Tasks_end" /\ req'[r].pc = "downloadToTaskMap"

ReturnsId(r) == req[r].pc = "go" /\ req'[r].pc = "done"

\* The record is that of a task just created.
IsNewRecord(task) ==
  /\ task.Status = "pending"
  /\ task.Downloaded = 0
  /\ task.Totalsize = 0
  /\ task.ErrMsg = ""
  /\ task.StartedAt # NilTime
  /\ task.EndAt = NilTime

\* C27: a successful AddTask inserts exactly one new record, pending, with
\* downloaded 0, totalsize 0, no errMsg, startedAt set and endAt nil, under
\* a fresh id, and touches no other record; the id it returns is that id,
\* and the record is in the store when it returns.
C27_AddInsertsPendingRecord ==
  [][\A r \in Reqs :
       /\ StoresRecord(r)
            => /\ req[r].taskId \notin DOMAIN Tasks
               /\ DOMAIN Tasks' = (DOMAIN Tasks) \cup {req[r].taskId}
               /\ \A t \in DOMAIN Tasks : Tasks'[t] = Tasks[t]
               /\ IsNewRecord(Tasks'[req[r].taskId])
               /\ Tasks'[req[r].taskId].TaskId = req[r].taskId
       /\ ReturnsId(r)
            => /\ req'[r].code = 200
               /\ req'[r].taskId = req[r].taskId
               /\ req[r].taskId \in DOMAIN Tasks']_vars

\* The fields of a record that say which task it is.
Identity(task) ==
  <<task.TaskId, task.Url, task.Filepath, task.Filename, task.StartedAt>>

\* C28: a task's id, url, filepath, filename and startedAt never change
\* after its creation: no step of ProgressFunc, CompleteTask, FailTask, List,
\* GetTaskStatus or ClearEndedTasks changes them in a record of the store.
C28_IdentityUnchanged ==
  [][\A t \in (DOMAIN Tasks) \cap (DOMAIN Tasks') :
       Identity(Tasks'[t]) = Identity(Tasks[t])]_vars

\* C28 witness: a task whose sampler has recorded progress over some time
\* and whose executor has recorded the outcome has been returned by a List
\* call, and its record is in the store.
C28_Witness ==
  \E t \in DOMAIN Tasks :
    /\ Tasks[t].EndAt # NilTime
    /\ Tasks[t].EndAt[1] > Tasks[t].StartedAt[1]
    /\ Tasks[t].Downloaded > 0
    /\ Tasks[t].Speed # ""
    /\ \E r \in Reqs : "tasks" \in DOMAIN req[r] /\ t \in Range(req[r].tasks)

\* This step is one of a ClearEndedTasks call: a round of its loop, or
\* the whole call.
ClearStep ==
  \/ clr' # clr
  \/ /\ \E days \in Days : Tasks' = Cleared(Tasks, days, now)
     /\ UNCHANGED <<req, epc, spc>>

\* C29: a record leaves the store only through ClearEndedTasks: in every
\* step that is not one of ClearEndedTasks, whatever else it is, and other
\* AddTask calls included, GetTaskStatus returns afterwards every task it
\* returned before.
C29_OnlyClearRemoves ==
  [][\A t \in DOMAIN Tasks :
       GetTaskStatus(Tasks', t) = NilTask => ClearStep]_vars

\* The steps in which the GetTaskStatus call of request r returns, and in
\* which the task query of request r calls List.
GetReturns(r) == "task" \notin DOMAIN req[r] /\ "task" \in DOMAIN req'[r]

ListReturns(r) ==
  /\ "lists" \in DOMAIN req[r]
  /\ "lists" \in DOMAIN req'[r]
  /\ Len(req'[r].lists) = Len(req[r].lists) + 1

\* A step of the task query of request r.
QueryStep(r) == "lists" \in DOMAIN req'[r] /\ req'[r] # req[r]

\* The store and the two auxiliary maps are after the step what they were.
MapsUnchanged ==
  /\ Tasks' = Tasks
  /\ taskToDownlaodMap' = taskToDownlaodMap
  /\ downloadToTaskMap' = downloadToTaskMap

\* C30: GetTaskStatus, List and the task query only read: GetTaskStatus
\* returns the record of an id the store holds and nil for any other id,
\* never created or removed; a List call returns records the store holds,
\* of the ids asked for, and every one of those when no status is asked
\* for; and every step of theirs leaves Tasks and both auxiliary maps as
\* they are, so that an unknown id gets no entry.
C30_ReadsArePure ==
  [][\A r \in Reqs :
       /\ GetReturns(r)
            => /\ req'[r].task = IF req'[r].asked \in DOMAIN Tasks
                                 THEN <<req'[r].asked>> ELSE NilTask
               /\ MapsUnchanged
       /\ ListReturns(r)
            => LET item == req[r].OrItems[Len(req'[r].lists)]
                   tasks == req'[r].lists[Len(req'[r].lists)]
               IN /\ Range(tasks) \subseteq DOMAIN Tasks
                  /\ item.TaskIds # <<>>
                       => Range(tasks) \subseteq Range(item.TaskIds)
                  /\ (item.TaskIds # <<>> /\ item.Status = "")
                       => Range(tasks) = Range(item.TaskIds) \cap DOMAIN Tasks
       /\ QueryStep(r) => MapsUnchanged]_vars

\* C30 witness: GetTaskStatus has returned nil for the id of a task that
\* was created, and a task query that asked for it and for an unknown id
\* has been answered with the record, which has left the store since.
C30_Witness ==
  /\ req[Getter].pc = "done"
  /\ req[Getter].asked = 1
  /\ req[Getter].task = NilTask
  /\ req[Lister].pc = "done"
  /\ "ret" \in DOMAIN req[Lister]
  /\ req[Lister].ret = <<1>>
  /\ 3 \in Range(req[Lister].OrItems[1].TaskIds)
  /\ 1 \in DOMAIN freed
  /\ 1 \notin DOMAIN Tasks

\* A step of ProgressFunc, CompleteTask or FailTask for download d.
TransferStep(d) == ProgressFunc(d) \/ CompleteTask(d) \/ FailTask(d)

\* The records of the tasks other than taskId are what they were.
OthersUnchanged(taskId) ==
  \A t \in (DOMAIN Tasks) \ {taskId} :
    t \in DOMAIN Tasks' /\ Tasks'[t] = Tasks[t]

\* C31: tasks are isolated.  A step of ProgressFunc, CompleteTask or FailTask
\* for one task changes no record but that task's, and it does not end the
\* process, which would stop every other task as well.
C31_TasksIsolated ==
  [][\A d \in DOMAIN epc :
       TransferStep(d) => (OthersUnchanged(epc[d].taskId) /\ ~crashed')]_vars

\* C32: every ProgressFunc, CompleteTask and FailTask step finds the record
\* of its task in Tasks, whatever ClearEndedTasks has done before it: no
\* such step looks up an id whose record is deleted and ends the process.
C32_TransferFindsTask ==
  [][\A d \in DOMAIN epc :
       /\ ProgressFunc(d) => LookupTask(d) \in DOMAIN Tasks
       /\ (CompleteTask(d) \/ FailTask(d)) => epc[d].taskId \in DOMAIN Tasks
       /\ TransferStep(d) => ~crashed']_vars

\* C33: a finished task shows every byte of its transfer.  Once the
\* goroutines of a task have ended and its status is finished, the downloaded
\* count of its record is the byte count of the transfer, and the total
\* size when that is known.
C33_FinishedShowsAllBytes ==
  \A d \in DOMAIN epc :
    LET t == epc[d].taskId
    IN (GoroutinesDone(d) /\ t \in DOMAIN Tasks /\ Tasks[t].Status = "finished")
       => /\ Tasks[t].Downloaded = dl[d].size
          /\ Tasks[t].Totalsize # 0 => Tasks[t].Downloaded = Tasks[t].Totalsize

\* The places of a condition's taskIds that hold the id of a task the
\* condition asks for.
AskedAt(store, item) ==
  {p \in DOMAIN item.TaskIds : item.TaskIds[p] \in Asked(store, item)}

\* C34: a List call with taskIds returns an entry for every place of taskIds
\* that holds the id of a known task that passes the filter, in the order of
\* the places: the k-th entry is the id at the k-th such place, so an id
\* given twice is returned twice, whatever the order the tasks were created
\* in.
C34_ListFollowsTaskIds ==
  \A r \in Queries : \A i \in ListCalls(r) :
    LET item == req[r].OrItems[i]
        at == AskedAt(req[r].at[i], item)
    IN item.TaskIds # <<>> =>
         /\ Len(req[r].lists[i]) = Cardinality(at)
         /\ \A k \in DOMAIN req[r].lists[i] :
              \E p \in at : /\ Cardinality({q \in at : q < p}) = k - 1
                            /\ req[r].lists[i][k] = item.TaskIds[p]

\* C34 witness: a List call for the ids 2, 3, 1, 1, of which 3 is unknown,
\* has returned task 2 before task 1, which was created first, and task 1
\* twice.
C34_Witness ==
  \E r \in Queries : \E i \in ListCalls(r) :
    /\ req[r].OrItems[i].TaskIds = <<2, 3, 1, 1>>
    /\ req[r].lists[i] = <<2, 1, 1>>

\* C35: a task that has ended did not end before it started: in every record
\* with an endAt, startedAt is not later than endAt.
C35_StartedNotAfterEnd ==
  \A t \in DOMAIN Tasks :
    Tasks[t].EndAt # NilTime => Tasks[t].StartedAt[1] <= Tasks[t].EndAt[1]

\* C35 witness: a task added after the clock's first tick has finished at a
\* later time than it started.
C35_Witness ==
  \E t \in DOMAIN Tasks :
    /\ Tasks[t].Status = "finished"
    /\ Tasks[t].EndAt # NilTime
    /\ Tasks[t].StartedAt[1] > 0
    /\ Tasks[t].StartedAt[1] < Tasks[t].EndAt[1]

\* A step in which GinMiddleware or HTTPMiddleware serves a request.
BasicMiddlewareStep ==
  /\ authRet' # authRet
  /\ authRet'.op \in {"GinMiddleware", "HTTPMiddleware"}

\* The request carries no Basic credentials, or not the configured ones.
LacksCredentials(a, request) ==
  \/ request.Authorization.scheme # "Basic"
  \/ request.Authorization.username # a.Username
  \/ request.Authorization.password # a.Password

\* C36: GinMiddleware and HTTPMiddleware never pass on a request for which
\* IsAuthRequired is true and which carries no Basic credentials or others
\* than the configured ones: the next handler does not run, and the answer
\* is 401 with a WWW-Authenticate header.
C36_MiddlewareRefuses ==
  [][(/\ BasicMiddlewareStep
      /\ IsAuthRequired(auth, authRet'.request.Method, authRet'.request.Path)
      /\ LacksCredentials(auth, authRet'.request))
     => /\ ~authRet'.next
        /\ authRet'.status = 401
        /\ "WWW-Authenticate" \in DOMAIN authRet'.header]_vars

\* C36 witness: a write request with the configured user name and a wrong
\* password has been refused with the challenge.
C36_Witness ==
  /\ authRet.op = "GinMiddleware"
  /\ ~Unconfigured(auth)
  /\ authRet.request.Method = "MKCOL"
  /\ authRet.request.Authorization.scheme = "Basic"
  /\ authRet.request.Authorization.username = auth.Username
  /\ authRet.request.Authorization.password # auth.Password
  /\ authRet.status = 401
  /\ ~authRet.next

\* The request has no Authorization header and no X-Auth header.
NoCredentials(request) ==
  /\ request.Authorization = NoAuthorization
  /\ GetHeader(request, "X-Auth-User") = ""
  /\ GetHeader(request, "X-Auth-Pass") = ""

\* C37: with no user name or no password configured every check admits
\* every request: IsAuthRequired is false for every method,
\* ValidateCredentials is true for every input, and RequireAPIAuth, by
\* CheckAPIAuth, passes on a request that carries no credentials.
C37_UnconfiguredAdmitsAll ==
  [][Unconfigured(auth) =>
       /\ \A method \in Methods : ~IsAuthRequired(auth, method, "/")
       /\ \A username \in {"", "admin", "guest"},
             password \in {"", "secret", "wrong"} :
            ValidateCredentials(auth, username, password)
       /\ (/\ authRet' # authRet
           /\ authRet'.op = "RequireAPIAuth"
           /\ NoCredentials(authRet'.request))
          => (authRet'.next /\ CheckAPIAuth(auth, authRet'.request))]_vars

\* No AddTask call is under way.
NoAddTaskUnderWay == \A r \in Reqs : req[r].pc \in {"idle", "done"}

\* C38: outside an AddTask call the three maps correspond: Tasks and
\* taskToDownlaodMap have the same ids, and downloadToTaskMap is the inverse
\* of taskToDownlaodMap; no entry is left of a task ClearEndedTasks removed.
C38_MapsCorrespond ==
  NoAddTaskUnderWay =>
    /\ DOMAIN Tasks = DOMAIN taskToDownlaodMap
    /\ DOMAIN downloadToTaskMap = Range(taskToDownlaodMap)
    /\ \A t \in DOMAIN taskToDownlaodMap :
         downloadToTaskMap[taskToDownlaodMap[t]] = t

====
